---- MODULE Spec2Model ----
(***************************************************************************)
(* Model of the Cypress bootloader host (Cellgain/bootloader-usb).         *)
(*                                                                         *)
(*   - the wire codec of cybootloader_protocol/commands.go as operators    *)
(*     over byte sequences;                                                *)
(*   - the programming session of main() (src/main.go, lines 243-394) as   *)
(*     a state machine: one action per write, per read-and-parse and per   *)
(*     control step, with the device's answers and the transport's I/O     *)
(*     errors drawn from small sets.                                       *)
(*                                                                         *)
(* Go slices are 0-based, TLA+ sequences 1-based: At(s, k) reads s[k] of   *)
(* the Go code.                                                            *)
(***************************************************************************)
EXTENDS Integers, Sequences, FiniteSets, TLC

VARIABLES
    f,            \* the parsed image: [siliconID, siliconRev, rows]
    key,          \* bootloaderKeyHex, the decoded -key flag
    restart,      \* the -restart flag
    pc,           \* position of main()
    peripheral,   \* "none" | "open" | "closed"
    initialized,  \* whether the transport accepts I/O (usb: Device.Init succeeded)
    readBuf,      \* the global read buffer
    val,          \* result of ParseEnterBootloaderCmdResult, or NoVal
    start,        \* flash bounds returned by GetFlashSize
    end,
    i,            \* index of the row being transferred (1-based)
    offset,       \* uint16 offset into the row's data
    result,       \* result of the last SendData parse
    checksumApp,  \* value taken from the VerifyAppChecksum response, -1 before
    wire,         \* history: every Write and Read call on the transport
    globalError,  \* the global failure flag
    fatal,        \* messages given to log.Fatalln, in order
    success,      \* whether "[SUCCESS] ..." was logged
    exitCode,     \* process exit status, -1 while running
    closes,       \* number of peripheral.Close() calls
    flashArray,   \* arrayID named in the GetFlashSize request, -1 before
    call          \* a call of one function of the packages: [fn, arg, ret]

vars == <<f, key, restart, pc, peripheral, initialized, readBuf, val, start, end,
          i, offset, result, checksumApp, wire, globalError, fatal, success,
          exitCode, closes, flashArray, call>>

----------------------------------------------------------------------------
(* Bounds of the model *)

MaxRows == 2
MaxRowSize == 115
MaxPayload == 300
MaxFileRows == 2

\* devices one scan of the bus opens
MaxDevices == 2

----------------------------------------------------------------------------
(* Program constants *)

PacketSize == 64
CmdStart == 1
CmdStop == 23
BaseCmdSize == 7
CmdVerifyChecksum == 49
CmdGetFlashSize == 50
CmdEraseRow == 52
CmdSendData == 55
CmdEnterBootloader == 56
CmdProgramRow == 57
CmdGetRowChecksum == 58
CmdExitBootloader == 59
CyretSuccess == 0

----------------------------------------------------------------------------
(* Fixed-width arithmetic and byte sequences *)

Byte(x) == x % 256

U16(x) == x % 65536

At(s, k) == s[k + 1]

\* s[lo:hi] of Go
Slice(s, lo, hi) == SubSeq(s, lo + 1, hi)

\* the sum of s[lo..hi], by halves
RECURSIVE SumRange(_, _, _)
SumRange(s, lo, hi) ==
    IF lo > hi THEN 0
    ELSE IF lo = hi THEN s[lo]
    ELSE LET mid == (lo + hi) \div 2
         IN  SumRange(s, lo, mid) + SumRange(s, mid + 1, hi)

SumBytes(s) == SumRange(s, 1, Len(s))

\* mutant: the bytes are copied over the buffer of the previous read
ZeroFill_OverOldBuffer(s, n) ==
    [k \in 1..n |-> IF k <= Len(s) THEN s[k]
                    ELSE IF k <= Len(readBuf) THEN readBuf[k]
                    ELSE 0]

\* make([]byte, n) followed by a copy of s: zero-filled to n bytes
ZeroFill(s, n) == [k \in 1..n |-> IF k <= Len(s) THEN s[k] ELSE 0]

\* 0xffff ^ sum for an unsigned sum: the low 16 bits are complemented
Xor16(sum) == (sum - (sum % 65536)) + (65535 - (sum % 65536))

\* mutant: the complement is not incremented
calcChecksum_OnesComplement(frame) ==
    LET sum == SumBytes(SubSeq(frame, 1, Len(frame) - 3))
        res == Xor16(sum)
    IN  <<Byte(res), Byte(res \div 256)>>

calcChecksum(frame) ==
    LET sum == SumBytes(SubSeq(frame, 1, Len(frame) - 3))
        res == 1 + Xor16(sum)
    IN  <<Byte(res), Byte(res \div 256)>>

\* mutant: the two checksum bytes are stored high byte first
Seal_HighFirst(body) ==
    LET frame == body \o <<0, 0, 0>>
        c == calcChecksum(frame)
    IN  body \o <<c[2], c[1], CmdStop>>

\* frame[len-3], frame[len-2] = calcChecksum(frame); frame[len-1] = CmdStop
Seal(body) ==
    LET frame == body \o <<0, 0, 0>>
        c == calcChecksum(frame)
    IN  body \o <<c[1], c[2], CmdStop>>

----------------------------------------------------------------------------
(* Request builders (cybootloader_protocol/commands.go) *)

\* A key is [isNil |-> BOOLEAN, bytes |-> Seq(byte)]; the result is
\* [frame |-> bytes, err |-> BOOLEAN] (frame is <<>> when err).  Without a key
\* the frame is make([]byte, BaseCmdSize) and the three trailer bytes are
\* appended to it.
CreateEnterBootloaderCmd(k) ==
    LET head == <<CmdStart, CmdEnterBootloader, IF k.isNil THEN 0 ELSE 6, 0>>
    IN  IF k.isNil
        THEN [frame |-> Seal(ZeroFill(head, BaseCmdSize)), err |-> FALSE]
        ELSE IF Len(k.bytes) # 6
             THEN [frame |-> <<>>, err |-> TRUE]
             ELSE [frame |-> Seal(head \o k.bytes), err |-> FALSE]

CreateExitBootloaderCmd == Seal(<<CmdStart, CmdExitBootloader, 0, 0>>)

CreateGetFlashSizeCmd(arrayID) ==
    Seal(<<CmdStart, CmdGetFlashSize, Byte(1), Byte(1) \div 256, arrayID>>)

\* frame[3] = byte(len(b)) >> 8: the conversion to byte comes first
CreateSendDataCmd(b) ==
    Seal(<<CmdStart, CmdSendData, Byte(Len(b)), Byte(Len(b)) \div 256>> \o b)

\* frame[3] = byte(3 + len(b)) >> 8 and frame[6] = byte(row) >> 8
CreateProgramRowCmd(b, arrayID, row) ==
    Seal(<<CmdStart, CmdProgramRow, Byte(3 + Len(b)), Byte(3 + Len(b)) \div 256,
           arrayID, Byte(row), Byte(row) \div 256>> \o b)

CreateGetRowChecksumCmd(arrayID, row) ==
    Seal(<<CmdStart, CmdGetRowChecksum, Byte(3), Byte(3) \div 256,
           arrayID, Byte(row), Byte(row) \div 256>>)

CreateEraseRowCmd(arrayID, row) ==
    Seal(<<CmdStart, CmdEraseRow, Byte(3), Byte(3) \div 256,
           arrayID, Byte(row), Byte(row) \div 256>>)

CreateVerifyAppChecksumCmd ==
    Seal(<<CmdStart, CmdVerifyChecksum, Byte(0), Byte(0) \div 256>>)

----------------------------------------------------------------------------
(* Response parsers (cybootloader_protocol/commands.go) *)

\* mutant: the stop byte is not looked at
ResponseError_NoStopCheck(r, dataSize) ==
    LET sizeResult == BaseCmdSize + dataSize
        frame == Slice(r, 0, sizeResult)
    IN  IF At(frame, 1) # CyretSuccess THEN "status"
        ELSE IF \/ At(frame, 0) # CmdStart
                \/ At(frame, 2) # dataSize
                \/ At(frame, 3) # (dataSize \div 256)
             THEN "form"
             ELSE "none"

\* err: "none", "status" (the bootloader reported an error) or "form" (the
\* data is not of the proper form)
ResponseError(r, dataSize) ==
    LET sizeResult == BaseCmdSize + dataSize
        frame == Slice(r, 0, sizeResult)
    IN  IF At(frame, 1) # CyretSuccess THEN "status"
        ELSE IF \/ At(frame, 0) # CmdStart
                \/ At(frame, 2) # dataSize
                \/ At(frame, 3) # (dataSize \div 256)
                \/ At(frame, sizeResult - 1) # CmdStop
             THEN "form"
             ELSE "none"

NoVal == [siliconID |-> -1, siliconRev |-> -1, bootloaderVersion |-> -1]

\* mutant: siliconID is assembled big-endian
ParseEnterBootloaderCmdResult_BigEndian(r) ==
    LET e == ResponseError(r, 8)
    IN  IF e # "none"
        THEN [err |-> e, val |-> NoVal]
        ELSE [err |-> e,
              val |-> [siliconID |-> At(r, 4) * 16777216 + At(r, 5) * 65536
                                     + At(r, 6) * 256 + At(r, 7),
                       siliconRev |-> At(r, 8),
                       bootloaderVersion |-> At(r, 11) * 65536 + At(r, 10) * 256
                                             + At(r, 9)]]

ParseEnterBootloaderCmdResult(r) ==
    LET e == ResponseError(r, 8)
    IN  IF e # "none"
        THEN [err |-> e, val |-> NoVal]
        ELSE [err |-> e,
              val |-> [siliconID |-> At(r, 7) * 16777216 + At(r, 6) * 65536
                                     + At(r, 5) * 256 + At(r, 4),
                       siliconRev |-> At(r, 8),
                       bootloaderVersion |-> At(r, 11) * 65536 + At(r, 10) * 256
                                             + At(r, 9)]]

ParseCreateGetFlashSizeCmdResult(r) ==
    LET e == ResponseError(r, 4)
    IN  IF e # "none"
        THEN [err |-> e, startRow |-> 0, endRow |-> 0]
        ELSE [err |-> e,
              startRow |-> At(r, 5) * 256 + At(r, 4),
              endRow |-> At(r, 7) * 256 + At(r, 6)]

ParseDefaultCmdResult(r) == ResponseError(r, 0) = "none"

ParseSendDataCmdResult(r) == ParseDefaultCmdResult(r)

ParseProgramRowCmdResult(r) == ParseDefaultCmdResult(r)

ParseEraseRowCmdResult(r) == ParseDefaultCmdResult(r)

ParseGetRowChecksumCmdResult(r) ==
    LET e == ResponseError(r, 1)
    IN  IF e # "none" THEN [err |-> e, value |-> 255]
        ELSE [err |-> e, value |-> At(r, 4)]

ParseVerifyAppChecksumCmdResult(r) ==
    LET e == ResponseError(r, 1)
    IN  IF e # "none" THEN [err |-> e, value |-> 255]
        ELSE [err |-> e, value |-> At(r, 4)]

----------------------------------------------------------------------------
(* The image (cyacdParse): header and rows, as NewCyacd and ParseRowData    *)
(* return them                                                              *)

ArrayIDs == {0, 1}

\* (rowNum, size) of the rows an image may hold
RowShapes ==
    {<<1, 0>>, <<5, PacketSize>>, <<300, PacketSize - BaseCmdSize>>,
     <<2, MaxRowSize>>}

RowData(rowNum, size) == [k \in 1..size |-> Byte(3 * k + rowNum)]

Row(arrayID, rowNum, size) ==
    [arrayID |-> arrayID, rowNum |-> rowNum, size |-> size,
     checksum |-> Byte(SumBytes(RowData(rowNum, size))),
     data |-> RowData(rowNum, size)]

RowSet == {Row(a, sh[1], sh[2]) : a \in ArrayIDs, sh \in RowShapes}

RECURSIVE SeqsUpTo(_, _)
SeqsUpTo(S, n) ==
    IF n = 0 THEN {<<>>}
    ELSE LET shorter == SeqsUpTo(S, n - 1)
         IN  shorter \cup {Append(q, x) : q \in shorter, x \in S}

\* siliconID 0x04C81193, siliconRev 0x11
Header == [siliconID |-> 80220563, siliconRev |-> 17]

Images ==
    {[siliconID |-> Header.siliconID, siliconRev |-> Header.siliconRev, rows |-> rs] :
        rs \in SeqsUpTo(RowSet, MaxRows)}

\* the decoded -key flag: validateParams rejects the empty string, so the
\* slice is never nil; its length is the user's
Keys == {[isNil |-> FALSE, bytes |-> <<202, 254, 0, 0, 202, 254>>],
         [isNil |-> FALSE, bytes |-> <<202>>]}

Modes == {"serial", "usb"}

----------------------------------------------------------------------------
(* The device: what a Read may leave in the 64-byte buffer *)

\* a response frame with the given status byte and data, in a zeroed buffer
Response(status, data) ==
    ZeroFill(Seal(<<CmdStart, status, Byte(Len(data)), Byte(Len(data) \div 256)>>
                  \o data), PacketSize)

LE16(x) == <<Byte(x), Byte(x \div 256)>>

LE32(x) == <<Byte(x), Byte(x \div 256), Byte(x \div 65536), Byte(x \div 16777216)>>

\* the bootloader reports an error (status 0x04), and a read that delivered
\* no byte at all (the buffer stays zeroed)
StatusAnswer == Response(4, <<>>)
EmptyAnswer == ZeroFill(<<>>, PacketSize)
BadAnswers == {StatusAnswer, EmptyAnswer}

EnterAnswers ==
    {Response(CyretSuccess, LE32(id) \o <<rev>> \o <<1, 30, 0>>) :
        id \in {Header.siliconID, Header.siliconID + 1},
        rev \in {Header.siliconRev, Header.siliconRev + 1}} \cup BadAnswers

FlashBounds == {<<0, 300>>, <<2, 255>>}

FlashSizeAnswers ==
    {Response(CyretSuccess, LE16(b[1]) \o LE16(b[2])) : b \in FlashBounds}
    \cup BadAnswers

DefaultAnswers == {Response(CyretSuccess, <<>>)} \cup BadAnswers

ChecksumAnswers(expected) ==
    {Response(CyretSuccess, <<v>>) : v \in {expected, Byte(expected + 1)}}
    \cup BadAnswers

VerifyAnswers == {Response(CyretSuccess, <<v>>) : v \in {0, 1}} \cup BadAnswers

----------------------------------------------------------------------------
(* History of the transport *)

WriteEv(cmd, row, off, frame) ==
    [op |-> "w", cmd |-> cmd, row |-> row, off |-> off, bytes |-> frame,
     ok |-> TRUE, value |-> -1]

\* a frame handed to peripheral.Write, which returned an error
FailedWriteEv(cmd, row, off, frame) ==
    [op |-> "wfail", cmd |-> cmd, row |-> row, off |-> off, bytes |-> frame,
     ok |-> FALSE, value |-> -1]

ReadEv(cmd, row, off, ok, value) ==
    [op |-> "r", cmd |-> cmd, row |-> row, off |-> off, bytes |-> <<>>,
     ok |-> ok, value |-> value]

----------------------------------------------------------------------------
(* The session: main() of src/main.go *)

MsgCreateDevice == "Error creating device"
MsgFindDevice == "Error finding device"
MsgCreateFrame == "Error creating frame"
MsgWrite == "Error writing frame"
MsgRead == "Error reading frame"
MsgParse == "Error parsing frame"
MsgMismatch == "The expected device does not match the detected device"
MsgFlashSize == "Error reading Flash size"
MsgOutOfRange == "The row number is out of range"
MsgProgramming == "There was an error during the programming of the device"
MsgChecksum == "The checksum does not match the expected value"
MsgClose == "Error closing peripheral"

\* no function is being exercised
NoCall == [fn |-> "none", arg |-> <<>>, ret |-> <<>>]

Init ==
    /\ f \in Images
    /\ key \in Keys
    /\ restart \in BOOLEAN
    /\ pc = "start"
    /\ peripheral = "none"
    /\ initialized = FALSE
    /\ readBuf = <<>>
    /\ val = NoVal
    /\ start = 0
    /\ end = 0
    /\ i = 0
    /\ offset = 0
    /\ result = TRUE
    /\ checksumApp = -1
    /\ wire = <<>>
    /\ globalError = FALSE
    /\ fatal = <<>>
    /\ success = FALSE
    /\ exitCode = -1
    /\ closes = 0
    /\ flashArray = -1
    /\ call = NoCall

\* mutant: the error is logged and the process ends with status 0
checkError_LogsOnly(msg) ==
    /\ globalError' = TRUE
    /\ fatal' = Append(fatal, msg)
    /\ exitCode' = 0
    /\ pc' = "exited"

\* checkError with a non-nil error: the flag is set and logrus' Fatalln logs
\* the message and calls os.Exit(1); no deferred function and no later
\* statement of main runs
checkError(msg) ==
    /\ globalError' = TRUE
    /\ fatal' = Append(fatal, msg)
    /\ exitCode' = 1
    /\ pc' = "exited"

\* mutant: the response to ProgramRow is not read
Continue_SkipsProgramRowRead(next) ==
    /\ pc' = IF next = "progR" THEN "sumW" ELSE next
    /\ UNCHANGED <<globalError, fatal, exitCode>>

\* the statement is passed without a fatal error
Continue(next) ==
    /\ pc' = next
    /\ UNCHANGED <<globalError, fatal, exitCode>>

\* main returns: the deferred function ends the process with Fatalln only if
\* globalError is set
ReturnFromMain ==
    /\ pc' = "exited"
    /\ exitCode' = IF globalError THEN 1 ELSE 0
    /\ UNCHANGED <<globalError, fatal>>

\* the errors peripheral.Write can return: every write fails on a usb Device
\* whose Init() failed (main ignores Init's error)
WriteErrors == IF initialized THEN BOOLEAN ELSE {TRUE}

writePeripheral(cmd, row, off, frame, next) ==
    \E werr \in WriteErrors :
        IF werr
        THEN /\ wire' = Append(wire, FailedWriteEv(cmd, row, off, frame))
             /\ checkError(MsgWrite)
        ELSE /\ wire' = Append(wire, WriteEv(cmd, row, off, frame))
             /\ Continue(next)

\* readPeripheral when peripheral.Read returns an error
ReadFails ==
    /\ readBuf' = EmptyAnswer
    /\ checkError(MsgRead)
    /\ UNCHANGED wire

\* mutant: the revision is not compared
DeviceDiffers_IdOnly(img, v) == img.siliconID # v.siliconID

\* f.SiliconID() != val["siliconID"] || f.SiliconRev() != val["siliconRev"]
DeviceDiffers(img, v) ==
    img.siliconID # v.siliconID \/ img.siliconRev # v.siliconRev

\* mutant: the lower bound is not checked
OutOfRange_UpperOnly(rowNum, s, e) == rowNum > e

\* r.RowNum() < start || r.RowNum() > end
OutOfRange(rowNum, s, e) == rowNum < s \/ rowNum > e

SubBufSize == PacketSize - 7

\* mutant: the loop does not look at result
ChunkLoopCond_IgnoresResult(res, size, off) == U16(size - off + 7) > PacketSize

\* result && (r.Size()-offset+7) > PacketSize, in uint16
ChunkLoopCond(res, size, off) == res /\ U16(size - off + 7) > PacketSize

\* mutant: every chunk is cut from the start of the row
ChunkSlice_FromStart(data, off) == Slice(data, 0, SubBufSize)

\* r.Data()[offset : offset+subBufSize]
ChunkSlice(data, off) == Slice(data, off, U16(off + SubBufSize))

\* r.Data()[offset:offset+subBufSize] with subBufSize := r.Size() - offset
RestSlice(data, size, off) == Slice(data, off, U16(off + U16(size - off)))

\* mutant: the high byte of the row number is left out
ExpectedRowChecksum_NoRowHigh(r) ==
    Byte(r.checksum + r.arrayID + Byte(r.rowNum) + Byte(r.size)
         + Byte(r.size \div 256))

\* r.Checksum() + r.ArrayID() + byte(r.RowNum()>>8) + byte(r.RowNum())
\*   + byte(r.Size()) + byte(r.Size()>>8), in uint8
ExpectedRowChecksum(r) ==
    Byte(r.checksum + r.arrayID + Byte(r.rowNum \div 256) + Byte(r.rowNum)
         + Byte(r.size) + Byte(r.size \div 256))

\* mutant: the comparison is inverted
ChecksumDiffers_Inverted(r, checksumUSB) == ExpectedRowChecksum(r) = checksumUSB

\* checksum != checksumUSB
ChecksumDiffers(r, checksumUSB) == ExpectedRowChecksum(r) # checksumUSB

CurRow == f.rows[i]

sessionVars == <<readBuf, val, start, end, i, offset, result, checksumApp>>

\* what no statement of main assigns
inputVars == <<f, key, restart, call>>

----------------------------------------------------------------------------
(* Actions *)

\* mutant: a failed discovery does not end the session
Acquire_ContinuesOnError ==
    /\ pc = "start"
    /\ \E mode \in Modes, found \in BOOLEAN, initOk \in BOOLEAN :
        IF ~found
        THEN /\ Continue("flags")
             /\ UNCHANGED <<peripheral, initialized>>
        ELSE /\ peripheral' = "open"
             /\ initialized' = (mode = "serial" \/ initOk)
             /\ Continue("flags")
    /\ UNCHANGED <<inputVars, sessionVars, wire, success, closes, flashArray>>

\* lines 281-299: uart.NewDevice / usb.FindDevice, checkError, devUSB.Init().
\* FindDevice returns a device or an error, never (nil, nil).
Acquire ==
    /\ pc = "start"
    /\ \E mode \in Modes, found \in BOOLEAN, initOk \in BOOLEAN :
        IF ~found
        THEN /\ checkError(IF mode = "serial" THEN MsgCreateDevice ELSE MsgFindDevice)
             /\ UNCHANGED <<peripheral, initialized>>
        ELSE /\ peripheral' = "open"
             /\ initialized' = (mode = "serial" \/ initOk)
             /\ Continue("flags")
    /\ UNCHANGED <<inputVars, sessionVars, wire, success, closes, flashArray>>

\* mutant: the return after the ExitBootloader write is missing
RestartOnly_NoReturn ==
    /\ pc = "flags"
    /\ restart
    /\ \E werr \in WriteErrors :
        IF werr
        THEN /\ wire' = Append(wire, FailedWriteEv(CmdExitBootloader, 0, 0,
                                                   CreateExitBootloaderCmd))
             /\ checkError(MsgWrite)
        ELSE /\ wire' = Append(wire, WriteEv(CmdExitBootloader, 0, 0,
                                             CreateExitBootloaderCmd))
             /\ Continue("enterW")
    /\ UNCHANGED <<inputVars, sessionVars, peripheral, initialized, success,
                   closes, flashArray>>

\* lines 301-305: if *restart { write ExitBootloader; return }
RestartOnly ==
    /\ pc = "flags"
    /\ restart
    /\ \E werr \in WriteErrors :
        IF werr
        THEN /\ wire' = Append(wire, FailedWriteEv(CmdExitBootloader, 0, 0,
                                                   CreateExitBootloaderCmd))
             /\ checkError(MsgWrite)
        ELSE /\ wire' = Append(wire, WriteEv(CmdExitBootloader, 0, 0,
                                             CreateExitBootloaderCmd))
             /\ ReturnFromMain
    /\ UNCHANGED <<inputVars, sessionVars, peripheral, initialized, success,
                   closes, flashArray>>

\* lines 307-308
CreateEnterFrame ==
    /\ pc = "flags"
    /\ ~restart
    /\ IF CreateEnterBootloaderCmd(key).err
       THEN checkError(MsgCreateFrame)
       ELSE Continue("enterW")
    /\ UNCHANGED <<inputVars, sessionVars, peripheral, initialized, wire, success,
                   closes, flashArray>>

\* line 312, first half of transactionPeripheral
EnterBootloaderWrite ==
    /\ pc = "enterW"
    /\ writePeripheral(CmdEnterBootloader, 0, 0,
                       CreateEnterBootloaderCmd(key).frame, "enterR")
    /\ UNCHANGED <<inputVars, sessionVars, peripheral, initialized, success,
                   closes, flashArray>>

\* lines 312-319: the read, the parse and the identity check
EnterBootloaderRead ==
    /\ pc = "enterR"
    /\ \/ ReadFails /\ UNCHANGED val
       \/ \E buf \in EnterAnswers :
            LET p == ParseEnterBootloaderCmdResult(buf)
            IN  /\ readBuf' = buf
                /\ wire' = Append(wire, ReadEv(CmdEnterBootloader, 0, 0,
                                               p.err = "none", -1))
                /\ val' = p.val
                /\ IF p.err # "none" THEN checkError(MsgParse)
                   ELSE IF DeviceDiffers(f, p.val) THEN checkError(MsgMismatch)
                   ELSE Continue("flashW")
    /\ UNCHANGED <<inputVars, start, end, i, offset, result, checksumApp,
                   peripheral, initialized, success, closes, flashArray>>

\* line 322: GetFlashSize(peripheral) sends the request ...
GetFlashSizeWrite ==
    /\ pc = "flashW"
    /\ \E a \in ArrayIDs, werr \in WriteErrors :
        IF werr
        THEN /\ wire' = Append(wire, FailedWriteEv(CmdGetFlashSize, 0, 0,
                                                   CreateGetFlashSizeCmd(a)))
             /\ flashArray' = a
             /\ checkError(MsgFlashSize)
        ELSE /\ wire' = Append(wire, WriteEv(CmdGetFlashSize, 0, 0,
                                             CreateGetFlashSizeCmd(a)))
             /\ flashArray' = a
             /\ Continue("flashR")
    /\ UNCHANGED <<inputVars, sessionVars, peripheral, initialized, success, closes>>

\* ... and returns the decoded bounds, or an error (lines 322-327)
GetFlashSizeRead ==
    /\ pc = "flashR"
    /\ \/ /\ checkError(MsgFlashSize)
          /\ UNCHANGED <<wire, readBuf, start, end, i>>
       \/ \E buf \in FlashSizeAnswers :
            LET p == ParseCreateGetFlashSizeCmdResult(buf)
            IN  /\ readBuf' = buf
                /\ wire' = Append(wire, ReadEv(CmdGetFlashSize, 0, 0,
                                               p.err = "none", -1))
                /\ IF p.err # "none"
                   THEN checkError(MsgFlashSize) /\ UNCHANGED <<start, end, i>>
                   ELSE /\ start' = p.startRow
                        /\ end' = p.endRow
                        /\ i' = 1
                        /\ Continue("rowHead")
    /\ UNCHANGED <<inputVars, val, offset, result, checksumApp, peripheral,
                   initialized, success, closes, flashArray>>

\* lines 328-336: the loop head and the range check of row i
NextRow ==
    /\ pc = "rowHead"
    /\ IF i > Len(f.rows)
       THEN Continue("verifyW") /\ UNCHANGED <<result, offset>>
       ELSE IF OutOfRange(CurRow.rowNum, start, end)
            THEN checkError(MsgOutOfRange) /\ UNCHANGED <<result, offset>>
            ELSE result' = TRUE /\ offset' = 0 /\ Continue("chunk")
    /\ UNCHANGED <<inputVars, readBuf, val, start, end, i, checksumApp, wire,
                   peripheral, initialized, success, closes, flashArray>>

\* lines 337-341: the chunk loop's condition holds; the chunk is written
SendDataWrite ==
    /\ pc = "chunk"
    /\ ChunkLoopCond(result, CurRow.size, offset)
    /\ writePeripheral(CmdSendData, i, offset,
                       CreateSendDataCmd(ChunkSlice(CurRow.data, offset)), "sendR")
    /\ UNCHANGED <<inputVars, sessionVars, peripheral, initialized, success,
                   closes, flashArray>>

\* lines 341-344: the chunk's response
SendDataRead ==
    /\ pc = "sendR"
    /\ \/ ReadFails /\ UNCHANGED <<result, offset>>
       \/ \E buf \in DefaultAnswers :
            /\ readBuf' = buf
            /\ wire' = Append(wire, ReadEv(CmdSendData, i, offset,
                                           ParseSendDataCmdResult(buf), -1))
            /\ result' = ParseSendDataCmdResult(buf)
            /\ offset' = U16(offset + SubBufSize)
            /\ Continue("chunk")
    /\ UNCHANGED <<inputVars, val, start, end, i, checksumApp, peripheral,
                   initialized, success, closes, flashArray>>

\* lines 347-351: the loop ended with result true
ProgramRowWrite ==
    /\ pc = "chunk"
    /\ ~ChunkLoopCond(result, CurRow.size, offset)
    /\ result
    /\ writePeripheral(CmdProgramRow, i, offset,
                       CreateProgramRowCmd(RestSlice(CurRow.data, CurRow.size, offset),
                                           CurRow.arrayID, CurRow.rowNum), "progR")
    /\ UNCHANGED <<inputVars, sessionVars, peripheral, initialized, success,
                   closes, flashArray>>

\* lines 369-371: the loop ended with result false
SendDataFailed ==
    /\ pc = "chunk"
    /\ ~ChunkLoopCond(result, CurRow.size, offset)
    /\ ~result
    /\ checkError(MsgProgramming)
    /\ UNCHANGED <<inputVars, sessionVars, wire, peripheral, initialized, success,
                   closes, flashArray>>

\* lines 351-353 and 368-372: the if has no else, so a response that does not
\* parse as success ends the iteration and the loop goes on with the next row
ProgramRowRead ==
    /\ pc = "progR"
    /\ \/ ReadFails /\ UNCHANGED i
       \/ \E buf \in DefaultAnswers :
            /\ readBuf' = buf
            /\ wire' = Append(wire, ReadEv(CmdProgramRow, i, offset,
                                           ParseProgramRowCmdResult(buf), -1))
            /\ IF ParseProgramRowCmdResult(buf)
               THEN Continue("sumW") /\ UNCHANGED i
               ELSE Continue("rowHead") /\ i' = i + 1
    /\ UNCHANGED <<inputVars, val, start, end, offset, result, checksumApp,
                   peripheral, initialized, success, closes, flashArray>>

\* lines 355-358
GetRowChecksumWrite ==
    /\ pc = "sumW"
    /\ writePeripheral(CmdGetRowChecksum, i, 0,
                       CreateGetRowChecksumCmd(CurRow.arrayID, CurRow.rowNum), "sumR")
    /\ UNCHANGED <<inputVars, sessionVars, peripheral, initialized, success,
                   closes, flashArray>>

\* lines 358-365
GetRowChecksumRead ==
    /\ pc = "sumR"
    /\ \/ ReadFails /\ UNCHANGED i
       \/ \E buf \in ChecksumAnswers(ExpectedRowChecksum(CurRow)) :
            LET p == ParseGetRowChecksumCmdResult(buf)
            IN  /\ readBuf' = buf
                /\ wire' = Append(wire, ReadEv(CmdGetRowChecksum, i, 0,
                                               p.err = "none", p.value))
                /\ IF p.err # "none"
                   THEN checkError(MsgParse) /\ UNCHANGED i
                   ELSE IF ChecksumDiffers(CurRow, p.value)
                   THEN checkError(MsgChecksum) /\ UNCHANGED i
                   ELSE Continue("rowHead") /\ i' = i + 1
    /\ UNCHANGED <<inputVars, val, start, end, offset, result, checksumApp,
                   peripheral, initialized, success, closes, flashArray>>

\* lines 376-377
VerifyAppChecksumWrite ==
    /\ pc = "verifyW"
    /\ writePeripheral(CmdVerifyChecksum, 0, 0, CreateVerifyAppChecksumCmd, "verifyR")
    /\ UNCHANGED <<inputVars, sessionVars, peripheral, initialized, success,
                   closes, flashArray>>

\* lines 377-384: the parser's error is discarded
VerifyAppChecksumRead ==
    /\ pc = "verifyR"
    /\ \/ ReadFails /\ UNCHANGED <<checksumApp, success>>
       \/ \E buf \in VerifyAnswers :
            LET p == ParseVerifyAppChecksumCmdResult(buf)
            IN  /\ readBuf' = buf
                /\ wire' = Append(wire, ReadEv(CmdVerifyChecksum, 0, 0,
                                               p.err = "none", p.value))
                /\ checksumApp' = p.value
                /\ success' = (p.value # 0)
                /\ Continue("exitW")
    /\ UNCHANGED <<inputVars, val, start, end, i, offset, result, peripheral,
                   initialized, closes, flashArray>>

\* lines 389-390
ExitBootloaderWrite ==
    /\ pc = "exitW"
    /\ writePeripheral(CmdExitBootloader, 0, 0, CreateExitBootloaderCmd, "close")
    /\ UNCHANGED <<inputVars, sessionVars, peripheral, initialized, success,
                   closes, flashArray>>

\* lines 392-394: peripheral.Close(), checkError, return
ClosePeripheral ==
    /\ pc = "close"
    /\ peripheral' = "closed"
    /\ closes' = closes + 1
    /\ \E cerr \in BOOLEAN :
        IF cerr THEN checkError(MsgClose) ELSE ReturnFromMain
    /\ UNCHANGED <<inputVars, sessionVars, wire, initialized, success, flashArray>>

Next ==
    \/ Acquire
    \/ RestartOnly
    \/ CreateEnterFrame
    \/ EnterBootloaderWrite
    \/ EnterBootloaderRead
    \/ GetFlashSizeWrite
    \/ GetFlashSizeRead
    \/ NextRow
    \/ SendDataWrite
    \/ SendDataRead
    \/ ProgramRowWrite
    \/ SendDataFailed
    \/ ProgramRowRead
    \/ GetRowChecksumWrite
    \/ GetRowChecksumRead
    \/ VerifyAppChecksumWrite
    \/ VerifyAppChecksumRead
    \/ ExitBootloaderWrite
    \/ ClosePeripheral

Spec == Init /\ [][Next]_vars

----------------------------------------------------------------------------
(* The image file's header (cyacdParse/parse.go).  A line is a sequence of  *)
(* one-character strings.                                                   *)

HexLower == <<"0", "1", "2", "3", "4", "5", "6", "7", "8", "9",
              "a", "b", "c", "d", "e", "f">>

HexUpper == <<"0", "1", "2", "3", "4", "5", "6", "7", "8", "9",
              "A", "B", "C", "D", "E", "F">>

\* encoding/hex's reverseHexTable: the digit's value, 0xff for any other byte
fromHexChar(c) ==
    IF \E k \in 1..16 : HexLower[k] = c
    THEN (CHOOSE k \in 1..16 : HexLower[k] = c) - 1
    ELSE IF \E k \in 1..16 : HexUpper[k] = c
    THEN (CHOOSE k \in 1..16 : HexUpper[k] = c) - 1
    ELSE 255

\* encoding/hex Decode (go 1.21): pairs are decoded until the first byte that
\* is not a digit; an odd length is reported after the full pairs.  j is the
\* 0-based index of the pair's second character.
RECURSIVE hexDecode(_, _, _)
hexDecode(src, j, dst) ==
    IF j < Len(src)
    THEN LET a == fromHexChar(At(src, j - 1))
             b == fromHexChar(At(src, j))
         IN  IF a > 15 \/ b > 15
             THEN [bytes |-> dst, err |-> TRUE]
             ELSE hexDecode(src, j + 2, Append(dst, a * 16 + b))
    ELSE [bytes |-> dst, err |-> (Len(src) % 2 = 1)]

\* hex.DecodeString: the bytes decoded before the error come with the error
DecodeString(s) == hexDecode(s, 1, <<>>)

\* A file is [exists, lines].  open fails on a missing file and ReadLine
\* returns io.EOF on an empty one; the error of hex.DecodeString is dropped
\* and decoded[0..4] are indexed whatever its length ("panic": index out of
\* range).
parseHeader(file) ==
    IF ~file.exists \/ Len(file.lines) = 0
    THEN [kind |-> "error", siliconID |-> 0, siliconRev |-> 0]
    ELSE LET decoded == DecodeString(file.lines[1]).bytes
         IN  IF Len(decoded) < 5
             THEN [kind |-> "panic", siliconID |-> 0, siliconRev |-> 0]
             ELSE [kind |-> "image",
                   siliconID |-> At(decoded, 0) * 16777216 + At(decoded, 1) * 65536
                                 + At(decoded, 2) * 256 + At(decoded, 3),
                   siliconRev |-> At(decoded, 4)]

\* NewCyacd returns (nil, err) when parseHeader fails and the image otherwise
NewCyacd(file) == parseHeader(file)

\* "04C8119311": the header line of Header
HeaderLine == <<"0", "4", "C", "8", "1", "1", "9", "3", "1", "1">>

HeaderLines ==
    {HeaderLine,
     <<"0", "4", "c", "8", "1", "1", "9", "3", "1", "1">>,
     HeaderLine \o <<"0", "0">>,
     HeaderLine \o <<"Z", "Z">>,
     HeaderLine \o <<"7">>,
     SubSeq(HeaderLine, 1, 8) \o <<"G", "1">>,
     SubSeq(HeaderLine, 1, 9),
     SubSeq(HeaderLine, 1, 4),
     <<"Z", "Z">> \o HeaderLine,
     <<>>}

\* a row line that may follow the header
SomeRowLine == <<":", "0", "0", "0", "0", "0", "5", "0", "0", "0", "0", "1", "0">>

Files ==
    {[exists |-> FALSE, lines |-> <<>>], [exists |-> TRUE, lines |-> <<>>]}
    \cup {[exists |-> TRUE, lines |-> <<l>>] : l \in HeaderLines}
    \cup {[exists |-> TRUE, lines |-> <<l, SomeRowLine>>] : l \in HeaderLines}

----------------------------------------------------------------------------
(* The image file's rows (cyacdParse/row.go, Cyacd.ParseRowData) *)

\* the byte of a character of a line
ord(c) ==
    CASE c = ":" -> 58
      [] c = "G" -> 71
      [] c = "Z" -> 90
      [] \E k \in 1..10 : HexLower[k] = c -> 47 + (CHOOSE k \in 1..10 : HexLower[k] = c)
      [] \E k \in 11..16 : HexLower[k] = c -> 86 + (CHOOSE k \in 11..16 : HexLower[k] = c)
      [] \E k \in 11..16 : HexUpper[k] = c -> 54 + (CHOOSE k \in 11..16 : HexUpper[k] = c)

\* the runtime's roundupsize for the small size classes (8, 16, 24, 32, then
\* multiples of 16 up to 256): the capacity of []byte(s)
roundupsize(n) ==
    IF n <= 32 THEN 8 * ((n + 7) \div 8)
    ELSE IF n <= 256 THEN 16 * ((n + 15) \div 16)
    ELSE n

\* the array behind the slice hex.DecodeString(s) returns: the line is
\* decoded in place, so the decoded bytes are followed by the characters
\* they did not overwrite and by the zeroed rest of the allocation
Backing(s) ==
    LET d == DecodeString(s).bytes
    IN  [k \in 1..roundupsize(Len(s)) |->
            IF k <= Len(d) THEN d[k]
            ELSE IF k <= Len(s) THEN ord(s[k])
            ELSE 0]

NoRow == [arrayID |-> 0, rowNum |-> 0, size |-> 0, checksum |-> 0, data |-> <<>>]

\* NewRow has no error result: r[1:], decoded[0..4] and decoded[len-1] are
\* indexed and decoded[5:size+5] is sliced (against the capacity, size+5 in
\* uint16) whatever the line holds; "panic" is an index or slice out of range
NewRow(r) ==
    IF Len(r) < 1 THEN [kind |-> "panic", row |-> NoRow]
    ELSE LET s == SubSeq(r, 2, Len(r))
             decoded == DecodeString(s).bytes
             array == Backing(s)
         IN  IF Len(decoded) < 5 THEN [kind |-> "panic", row |-> NoRow]
             ELSE LET size == At(decoded, 3) * 256 + At(decoded, 4)
                      hi == U16(size + 5)
                  IN  IF hi < 5 \/ hi > Len(array)
                      THEN [kind |-> "panic", row |-> NoRow]
                      ELSE [kind |-> "row",
                            row |-> [arrayID |-> At(decoded, 0),
                                     rowNum |-> At(decoded, 1) * 256 + At(decoded, 2),
                                     size |-> size,
                                     checksum |-> At(decoded, Len(decoded) - 1),
                                     data |-> Slice(array, 5, hi)]]

\* mutant: each row is put in front of the rows read before it
RECURSIVE ParseRowData_NewestFirst(_)
ParseRowData_NewestFirst(file) ==
    IF ~file.exists \/ Len(file.lines) <= 1
    THEN [kind |-> "rows", rows |-> <<>>]
    ELSE LET n == Len(file.lines)
             init == ParseRowData_NewestFirst([file EXCEPT !.lines = SubSeq(@, 1, n - 1)])
             last == NewRow(file.lines[n])
         IN  IF init.kind = "panic" \/ last.kind = "panic"
             THEN [kind |-> "panic", rows |-> <<>>]
             ELSE [kind |-> "rows", rows |-> <<last.row>> \o init.rows]

\* ParseRowData opens the file again (a failed open leaves nothing to scan),
\* skips the first line and appends NewRow of every further line; the lines
\* of the model are far below the scanner's 64 KiB token limit
RECURSIVE ParseRowData(_)
ParseRowData(file) ==
    IF ~file.exists \/ Len(file.lines) <= 1
    THEN [kind |-> "rows", rows |-> <<>>]
    ELSE LET n == Len(file.lines)
             init == ParseRowData([file EXCEPT !.lines = SubSeq(@, 1, n - 1)])
             last == NewRow(file.lines[n])
         IN  IF init.kind = "panic" \/ last.kind = "panic"
             THEN [kind |-> "panic", rows |-> <<>>]
             ELSE [kind |-> "rows", rows |-> Append(init.rows, last.row)]

\* the two characters of a byte, and ":" followed by the bytes in hex
RECURSIVE HexText(_)
HexText(bytes) ==
    IF bytes = <<>> THEN <<>>
    ELSE <<HexUpper[(Head(bytes) \div 16) + 1], HexUpper[(Head(bytes) % 16) + 1]>>
         \o HexText(Tail(bytes))

RowLine(bytes) == <<":">> \o HexText(bytes)

\* the bytes of a well-formed row line
RowBytes(arrayID, rowNum, data, checksum) ==
    <<arrayID, rowNum \div 256, rowNum % 256, Len(data) \div 256, Len(data) % 256>>
    \o data \o <<checksum>>

GoodRowBytes ==
    {RowBytes(0, 5, <<1, 2, 3, 4>>, 16),
     RowBytes(1, 300, <<170, 187>>, 85),
     RowBytes(0, 1, <<>>, 0)}

RowLines ==
    {RowLine(b) : b \in GoodRowBytes}
    \cup {RowLine(SubSeq(b, 1, Len(b) - 1)) : b \in GoodRowBytes}
    \cup {RowLine(<<0, 0, 5, 0, 8, 1, 2, 3>>),
          RowLine(<<0, 0, 5, 0, 64, 1, 2>>),
          RowLine(<<0, 0, 5, 255, 255, 1, 2, 3>>),
          RowLine(<<0, 0, 5, 0, 2, 9>>) \o <<"Z", "Z", "1", "0">>,
          RowLine(<<0, 0>>),
          HexText(RowBytes(0, 5, <<1, 2, 3, 4>>, 16)),
          <<":">>,
          <<>>}

RowFiles ==
    {[exists |-> FALSE, lines |-> <<>>], [exists |-> TRUE, lines |-> <<>>]}
    \cup {[exists |-> TRUE, lines |-> <<HeaderLine>> \o ls] :
            ls \in SeqsUpTo(RowLines, MaxFileRows)}

----------------------------------------------------------------------------
(* The packages' functions, one call at a time: each action applies one     *)
(* function to an argument of a bounded set and records the result          *)

\* n bytes 1, 8, 15, ... and n bytes 0xff
Ramp(n) == [k \in 1..n |-> Byte(7 * k - 6)]

Full(n) == [k \in 1..n |-> 255]

PayloadSizes == {0, 1, PacketSize - BaseCmdSize, 255, 256, MaxPayload}

Payloads == {Ramp(n) : n \in PayloadSizes} \cup {Full(n) : n \in PayloadSizes}

CallArrayIDs == {0, 1, 255}

CallRowNums == {0, 5, 255, 256, 300, 65535}

CallKeys == Keys \cup {[isNil |-> TRUE, bytes |-> <<>>],
                       [isNil |-> FALSE, bytes |-> <<>>],
                       [isNil |-> FALSE, bytes |-> <<1, 2, 3, 4, 5, 6, 7>>]}

\* frames given to calcChecksum: any byte sequence of three bytes or more
RawFrames == {p \o <<0, 0, 0>> : p \in Payloads} \cup {p \o <<9, 9, 9>> : p \in Payloads}

\* r with the byte at 0-based position k replaced by v
Corrupt(r, k, v) == [r EXCEPT ![k + 1] = v]

\* the 64-byte buffers given to a parser whose response carries n data bytes
ResponsesOf(data) ==
    LET n == Len(data)
        good == Response(CyretSuccess, data)
    IN  {good,
         Corrupt(good, 0, 2),
         Corrupt(good, 1, 4),
         Corrupt(good, 1, 8),
         Corrupt(Corrupt(good, 1, 4), 0, 2),
         Corrupt(good, 2, n + 1),
         Corrupt(good, 3, 1),
         Corrupt(good, BaseCmdSize + n - 1, 0),
         Corrupt(good, BaseCmdSize + n - 3, 0),
         Response(4, <<>>),
         Response(8, <<>>),
         Response(CyretSuccess, <<>>),
         Response(CyretSuccess, <<1, 2, 3, 4, 5, 6, 7, 8, 9>>),
         EmptyAnswer}

EnterData ==
    {LE32(Header.siliconID) \o <<Header.siliconRev>> \o <<1, 30, 0>>,
     <<1, 2, 3, 4, 5, 6, 7, 8>>,
     <<255, 255, 255, 127, 255, 255, 255, 255>>,
     <<0, 0, 0, 0, 0, 0, 0, 0>>}

FlashSizeData ==
    {LE16(0) \o LE16(300), LE16(256) \o LE16(65535), <<1, 2, 3, 4>>}

ByteData == {<<0>>, <<1>>, <<85>>, <<255>>}

Called(fn, arg, ret) == call' = [fn |-> fn, arg |-> arg, ret |-> ret]

\* the variables of main's session
mainVars == <<f, key, restart, pc, peripheral, initialized, readBuf, val, start,
              end, i, offset, result, checksumApp, wire, globalError, fatal,
              success, exitCode, closes, flashArray>>

Idle == pc = "calls" /\ call = NoCall

calcChecksumCall ==
    /\ Idle
    /\ \E frame \in RawFrames : Called("calcChecksum", frame, calcChecksum(frame))
    /\ UNCHANGED mainVars

CreateEnterBootloaderCmdCall ==
    /\ Idle
    /\ \E k \in CallKeys :
        Called("CreateEnterBootloaderCmd", k, CreateEnterBootloaderCmd(k))
    /\ UNCHANGED mainVars

CreateExitBootloaderCmdCall ==
    /\ Idle
    /\ Called("CreateExitBootloaderCmd", <<>>, CreateExitBootloaderCmd)
    /\ UNCHANGED mainVars

CreateGetFlashSizeCmdCall ==
    /\ Idle
    /\ \E a \in CallArrayIDs :
        Called("CreateGetFlashSizeCmd", [arrayID |-> a], CreateGetFlashSizeCmd(a))
    /\ UNCHANGED mainVars

CreateSendDataCmdCall ==
    /\ Idle
    /\ \E b \in Payloads : Called("CreateSendDataCmd", [b |-> b], CreateSendDataCmd(b))
    /\ UNCHANGED mainVars

CreateProgramRowCmdCall ==
    /\ Idle
    /\ \E b \in Payloads, a \in CallArrayIDs, row \in CallRowNums :
        Called("CreateProgramRowCmd", [b |-> b, arrayID |-> a, row |-> row],
               CreateProgramRowCmd(b, a, row))
    /\ UNCHANGED mainVars

CreateGetRowChecksumCmdCall ==
    /\ Idle
    /\ \E a \in CallArrayIDs, row \in CallRowNums :
        Called("CreateGetRowChecksumCmd", [arrayID |-> a, row |-> row],
               CreateGetRowChecksumCmd(a, row))
    /\ UNCHANGED mainVars

CreateEraseRowCmdCall ==
    /\ Idle
    /\ \E a \in CallArrayIDs, row \in CallRowNums :
        Called("CreateEraseRowCmd", [arrayID |-> a, row |-> row],
               CreateEraseRowCmd(a, row))
    /\ UNCHANGED mainVars

CreateVerifyAppChecksumCmdCall ==
    /\ Idle
    /\ Called("CreateVerifyAppChecksumCmd", <<>>, CreateVerifyAppChecksumCmd)
    /\ UNCHANGED mainVars

ParseEnterBootloaderCmdResultCall ==
    /\ Idle
    /\ \E d \in EnterData : \E r \in ResponsesOf(d) :
        Called("ParseEnterBootloaderCmdResult", r, ParseEnterBootloaderCmdResult(r))
    /\ UNCHANGED mainVars

ParseCreateGetFlashSizeCmdResultCall ==
    /\ Idle
    /\ \E d \in FlashSizeData : \E r \in ResponsesOf(d) :
        Called("ParseCreateGetFlashSizeCmdResult", r,
               ParseCreateGetFlashSizeCmdResult(r))
    /\ UNCHANGED mainVars

ParseSendDataCmdResultCall ==
    /\ Idle
    /\ \E r \in ResponsesOf(<<>>) :
        Called("ParseSendDataCmdResult", r, ParseSendDataCmdResult(r))
    /\ UNCHANGED mainVars

ParseProgramRowCmdResultCall ==
    /\ Idle
    /\ \E r \in ResponsesOf(<<>>) :
        Called("ParseProgramRowCmdResult", r, ParseProgramRowCmdResult(r))
    /\ UNCHANGED mainVars

ParseEraseRowCmdResultCall ==
    /\ Idle
    /\ \E r \in ResponsesOf(<<>>) :
        Called("ParseEraseRowCmdResult", r, ParseEraseRowCmdResult(r))
    /\ UNCHANGED mainVars

ParseGetRowChecksumCmdResultCall ==
    /\ Idle
    /\ \E d \in ByteData : \E r \in ResponsesOf(d) :
        Called("ParseGetRowChecksumCmdResult", r, ParseGetRowChecksumCmdResult(r))
    /\ UNCHANGED mainVars

ParseVerifyAppChecksumCmdResultCall ==
    /\ Idle
    /\ \E d \in ByteData : \E r \in ResponsesOf(d) :
        Called("ParseVerifyAppChecksumCmdResult", r,
               ParseVerifyAppChecksumCmdResult(r))
    /\ UNCHANGED mainVars

NewCyacdCall ==
    /\ Idle
    /\ \E file \in Files : Called("NewCyacd", file, NewCyacd(file))
    /\ UNCHANGED mainVars

NewRowCall ==
    /\ Idle
    /\ \E r \in RowLines : Called("NewRow", r, NewRow(r))
    /\ UNCHANGED mainVars

ParseRowDataCall ==
    /\ Idle
    /\ \E file \in RowFiles : Called("ParseRowData", file, ParseRowData(file))
    /\ UNCHANGED mainVars

----------------------------------------------------------------------------
(* Reads of the usb transports (usb/device.go, HIDDevice)                   *)

ErrNone == "nil"
ErrClosed == "device is closed"
ErrNotInitialized == "device not initialized - call Init() first"
ErrSetDeadline == "failed to set read deadline"
ErrReadTimeout == "read timeout after 5s"
ErrReadFailed == "read failed"

\* what happens on the endpoint or the file while a Read waits: data arrives,
\* the read timeout expires first, or the transfer fails
ReadOutcomes == {"data", "expired", "failed"}

\* a transport: closed or not, initialized (epIn, file set by Init) or not
Transports == [closed : BOOLEAN, initialized : BOOLEAN]

\* d.epIn.ReadContext(ctx, b) of gousb v1.1.3: when ctx is done the transfer
\* is cancelled and its status, TransferCancelled, is the error returned;
\* the context's own error is not returned
ReadContext(outcome) ==
    IF outcome = "data" THEN [n |-> PacketSize, err |-> "nil"]
    ELSE IF outcome = "expired" THEN [n |-> 0, err |-> "gousb.TransferCancelled"]
    ELSE [n |-> 0, err |-> "gousb.TransferError"]

\* d.file.Read(b) of os.File after SetReadDeadline: a passed deadline is
\* reported as os.ErrDeadlineExceeded
FileRead(outcome) ==
    IF outcome = "data" THEN [n |-> PacketSize, err |-> "nil"]
    ELSE IF outcome = "expired" THEN [n |-> 0, err |-> "os.ErrDeadlineExceeded"]
    ELSE [n |-> 0, err |-> "syscall.EIO"]

\* errors.Is(err, context.DeadlineExceeded)
IsDeadlineExceeded(err) == err = "context.DeadlineExceeded"

\* os.IsTimeout(err)
IsTimeout(err) == err = "os.ErrDeadlineExceeded"

\* if err != nil { if <timeout> { return n, "read timeout ..." }
\*                 return n, "read failed ..." }; return n, nil
WrapReadError(lib, timeout) ==
    IF lib.err # "nil"
    THEN IF timeout
         THEN [n |-> lib.n, err |-> ErrReadTimeout]
         ELSE [n |-> lib.n, err |-> ErrReadFailed]
    ELSE [n |-> lib.n, err |-> ErrNone]

\* Device.Read: d.epIn.ReadContext under a context with the read timeout
DeviceRead(d, outcome) ==
    IF d.closed THEN [n |-> 0, err |-> ErrClosed]
    ELSE IF ~d.initialized THEN [n |-> 0, err |-> ErrNotInitialized]
    ELSE WrapReadError(ReadContext(outcome),
                       IsDeadlineExceeded(ReadContext(outcome).err))

\* HIDDevice.Read: d.file.SetReadDeadline, then d.file.Read
HIDDeviceRead(d, deadlineSet, outcome) ==
    IF d.closed THEN [n |-> 0, err |-> ErrClosed]
    ELSE IF ~d.initialized THEN [n |-> 0, err |-> ErrNotInitialized]
    ELSE IF ~deadlineSet THEN [n |-> 0, err |-> ErrSetDeadline]
    ELSE WrapReadError(FileRead(outcome), IsTimeout(FileRead(outcome).err))

DeviceReadCall ==
    /\ Idle
    /\ \E d \in Transports, outcome \in ReadOutcomes :
        Called("Device.Read", [d |-> d, deadlineSet |-> TRUE, outcome |-> outcome],
               DeviceRead(d, outcome))
    /\ UNCHANGED mainVars

HIDDeviceReadCall ==
    /\ Idle
    /\ \E d \in Transports, deadlineSet \in BOOLEAN, outcome \in ReadOutcomes :
        Called("HIDDevice.Read",
               [d |-> d, deadlineSet |-> deadlineSet, outcome |-> outcome],
               HIDDeviceRead(d, deadlineSet, outcome))
    /\ UNCHANGED mainVars

----------------------------------------------------------------------------
(* Device discovery (usb/findDevice.go FindDevice, FindHIDDevice): the call *)
(* record carries the position pc, the loop variable attempt and the        *)
(* results of the scans made so far                                         *)

maxRetries == 10

FindFns == {"FindDevice", "FindHIDDevice"}

\* findMatchingDevice returns (device, nil), (nil, err) or (nil, nil)
ScanResults == {"device", "error", "none"}

Pending == [device |-> FALSE, err |-> "pending"]

ErrSearchTimedOut == "device search timed out"
ErrNoDevicesFound == "no devices found after 10 attempts"

\* mutant: the loop runs one attempt more
RetryAllowed_OffByOne(attempt) == attempt <= maxRetries + 1

\* attempt <= maxRetries
RetryAllowed(attempt) == attempt <= maxRetries

Finding(p) == pc = "find" /\ call.fn \in FindFns /\ call.pc = p

Returned(device, err) ==
    call' = [call EXCEPT !.pc = "done", !.ret = [device |-> device, err |-> err]]

\* the for statement's condition; the first attempt scans at once, the later
\* ones enter the select
FindLoopHead ==
    /\ Finding("head")
    /\ IF RetryAllowed(call.attempt)
       THEN call' = [call EXCEPT !.pc = IF call.attempt = 1 THEN "scan" ELSE "select"]
       ELSE Returned(FALSE, ErrNoDevicesFound)
    /\ UNCHANGED mainVars

\* case <-ctx.Done()
FindTimeout ==
    /\ Finding("select")
    /\ Returned(FALSE, ErrSearchTimedOut)
    /\ UNCHANGED mainVars

\* case <-time.After(retryDelay)
FindDelayElapsed ==
    /\ Finding("select")
    /\ call' = [call EXCEPT !.pc = "scan"]
    /\ UNCHANGED mainVars

\* findMatchingDevice; a device is returned, anything else goes on with the
\* next attempt
FindScan ==
    /\ Finding("scan")
    /\ \E res \in ScanResults :
        IF res = "device"
        THEN call' = [call EXCEPT !.pc = "done", !.scans = Append(@, res),
                                  !.ret = [device |-> TRUE, err |-> ErrNone]]
        ELSE call' = [call EXCEPT !.pc = "head", !.scans = Append(@, res),
                                  !.attempt = @ + 1]
    /\ UNCHANGED mainVars

FindInit ==
    /\ f = [siliconID |-> Header.siliconID, siliconRev |-> Header.siliconRev,
            rows |-> <<>>]
    /\ key = [isNil |-> FALSE, bytes |-> <<>>]
    /\ restart = FALSE
    /\ pc = "find"
    /\ peripheral = "none"
    /\ initialized = FALSE
    /\ readBuf = <<>>
    /\ val = NoVal
    /\ start = 0
    /\ end = 0
    /\ i = 0
    /\ offset = 0
    /\ result = TRUE
    /\ checksumApp = -1
    /\ wire = <<>>
    /\ globalError = FALSE
    /\ fatal = <<>>
    /\ success = FALSE
    /\ exitCode = -1
    /\ closes = 0
    /\ flashArray = -1
    /\ call \in {[fn |-> fn, arg |-> "serial", ret |-> Pending, pc |-> "head",
                  attempt |-> 1, scans |-> <<>>] : fn \in FindFns}

FindNext ==
    \/ FindLoopHead
    \/ FindTimeout
    \/ FindDelayElapsed
    \/ FindScan

\* the goroutine keeps running: a scan returns, and one of the select's two
\* channels becomes ready
FindSpec == FindInit /\ [][FindNext]_vars /\ WF_vars(FindNext)

----------------------------------------------------------------------------
(* One scan of the bus (usb/findDevice.go findMatchingDevice)               *)

\* what dev.SerialNumber() gives for an opened device: the serial looked
\* for, another one, or an error
Serials == {"wanted", "other", "unreadable"}

\* what ctx.OpenDevices returns: the devices it opened, with or without an
\* error (gousb returns the opened devices together with the error, and each
\* of them must be closed)
Buses ==
    [devs : SeqsUpTo(Serials, MaxDevices), err : BOOLEAN]

\* the first device whose serial number is read and equal to the one looked
\* for, 0 if there is none
RECURSIVE FirstMatch(_, _)
FirstMatch(devs, k) ==
    IF k > Len(devs) THEN 0
    ELSE IF devs[k] = "wanted" THEN k
    ELSE FirstMatch(devs, k + 1)

\* findMatchingDevice: the error of OpenDevices is returned before the
\* deferred function is set up; otherwise the matched device is taken out of
\* devs and the deferred function closes what is left in it.  closes[k] is
\* the number of Close calls on device k.
findMatchingDevice(bus) ==
    IF bus.err
    THEN [device |-> 0, err |-> "failed to open devices",
          closes |-> [k \in 1..Len(bus.devs) |-> 0]]
    ELSE LET m == FirstMatch(bus.devs, 1)
         IN  [device |-> m, err |-> "nil",
              closes |-> [k \in 1..Len(bus.devs) |-> IF k = m THEN 0 ELSE 1]]

findMatchingDeviceCall ==
    /\ Idle
    /\ \E bus \in Buses : Called("findMatchingDevice", bus, findMatchingDevice(bus))
    /\ UNCHANGED mainVars

----------------------------------------------------------------------------
(* The chunk loop of one row (main.go lines 335-349) with a device that     *)
(* accepts every chunk: the call record carries the row's size, the loop's  *)
(* offset and the number of SendData chunks sent                            *)

\* row sizes: around the multiples of the chunk size, and the largest sizes
\* NewRow can return (size + 5 must not wrap and must fit the capacity of
\* the buffer of a line of at most 64 KiB, the scanner's limit)
ChunkSizes ==
    {0, 1, SubBufSize - 1, SubBufSize, SubBufSize + 1, 2 * SubBufSize,
     2 * SubBufSize + 1, 3 * SubBufSize, MaxRowSize, 32761, 65528, 65529, 65530}

Chunking(p) == pc = "chunks" /\ call.fn = "chunkLoop" /\ call.pc = p

\* the loop's condition holds: a chunk is sent and offset += subBufSize
ChunkSend ==
    /\ Chunking("loop")
    /\ ChunkLoopCond(TRUE, call.arg, call.offset)
    /\ call' = [call EXCEPT !.offset = U16(@ + SubBufSize), !.chunks = @ + 1]
    /\ UNCHANGED mainVars

\* the loop ends: subBufSize := r.Size() - offset bytes go into ProgramRow
ChunkRest ==
    /\ Chunking("loop")
    /\ ~ChunkLoopCond(TRUE, call.arg, call.offset)
    /\ call' = [call EXCEPT !.pc = "done",
                            !.ret = [chunks |-> call.chunks,
                                     rest |-> U16(call.arg - call.offset)]]
    /\ UNCHANGED mainVars

\* main's variables of a process that runs no session, at position p
Unstarted(p) ==
    /\ f = [siliconID |-> Header.siliconID, siliconRev |-> Header.siliconRev,
            rows |-> <<>>]
    /\ key = [isNil |-> FALSE, bytes |-> <<>>]
    /\ restart = FALSE
    /\ pc = p
    /\ peripheral = "none"
    /\ initialized = FALSE
    /\ readBuf = <<>>
    /\ val = NoVal
    /\ start = 0
    /\ end = 0
    /\ i = 0
    /\ offset = 0
    /\ result = TRUE
    /\ checksumApp = -1
    /\ wire = <<>>
    /\ globalError = FALSE
    /\ fatal = <<>>
    /\ success = FALSE
    /\ exitCode = -1
    /\ closes = 0
    /\ flashArray = -1

ChunkInit ==
    /\ Unstarted("chunks")
    /\ call \in {[fn |-> "chunkLoop", arg |-> size, ret |-> <<>>, pc |-> "loop",
                  offset |-> 0, chunks |-> 0] : size \in ChunkSizes}

ChunkNext == ChunkSend \/ ChunkRest

ChunkSpec == ChunkInit /\ [][ChunkNext]_vars

----------------------------------------------------------------------------
(* A transport used by concurrent goroutines (usb/device.go Device and      *)
(* HIDDevice): the call record carries the fields of the device (d), its    *)
(* RWMutex (mu), each goroutine's position (g), what the library holds for  *)
(* it (held), whether an Init has returned nil (inited) and the call that   *)
(* returned last, with the fields it found (last)                           *)

Goroutines == {"g1", "g2"}

DeviceKinds == {"usb", "hid"}

\* a Device after NewDevice (dev is set), a HIDDevice after NewHIDDevice
NewDevice(kind) ==
    [closed |-> FALSE, dev |-> (kind = "usb"), cfg |-> FALSE, intf |-> FALSE,
     done |-> FALSE, epIn |-> FALSE, epOut |-> FALSE, file |-> FALSE]

ErrBusy == "device is busy/in use by another application"
ErrConfig == "failed to set config"
ErrInterface == "failed to claim interface"
ErrInEndpoint == "failed to get input endpoint"
ErrOutEndpoint == "failed to get output endpoint"
ErrOpen == "failed to open HID device"
ErrCloseFailed == "close errors"

On(p) == pc = "device" /\ call.fn = "Device" /\ p

At2(g, p) == On(call.g[g] = p)

\* mutant: the write lock is taken while readers hold the mutex
CanLock_IgnoresReaders == call.mu.w = "none"

\* d.mu.Lock() returns: no writer and no reader holds the mutex
CanLock == call.mu.w = "none" /\ call.mu.r = {}

\* d.mu.RLock() returns: no writer holds the mutex
CanRLock == call.mu.w = "none"

\* IsInitialized
IsInitialized(d) ==
    ~d.closed /\ (d.file \/ (d.cfg /\ d.intf /\ d.epIn /\ d.epOut))

\* cleanup: done() closes the interface, cfg.Close(), and the fields are
\* set to nil
cleanup(d) ==
    [d EXCEPT !.done = FALSE, !.cfg = FALSE, !.intf = FALSE, !.epIn = FALSE,
              !.epOut = FALSE]

\* what the library holds after cleanup
cleanupHeld(d, held) ==
    [held EXCEPT !.cfg = IF d.cfg THEN @ - 1 ELSE @,
                 !.intf = IF d.done THEN @ - 1 ELSE @]

\* the deferred Unlock and the return of Init or Close
Return(gr, op, ret, d, held) ==
    call' = [call EXCEPT !.d = d, !.held = held,
                         !.mu = [w |-> "none", r |-> call.mu.r],
                         !.g = [@ EXCEPT ![gr] = "idle"],
                         !.inited = @ \/ (op = "Init" /\ ret = ErrNone),
                         !.last = [op |-> op, ret |-> ret, pre |-> call.d]]

\* the next statement of Init or Close, the lock held
Goto(gr, p, d, held) ==
    call' = [call EXCEPT !.d = d, !.held = held,
                         !.mu = [w |-> gr, r |-> call.mu.r],
                         !.g = [@ EXCEPT ![gr] = p]]

\* Init, lines 113-124 (HIDDevice.Init 94-105): the lock, the closed check
\* and the check for an initialized device
InitBegin(gr) ==
    /\ At2(gr, "idle")
    /\ CanLock
    /\ IF call.d.closed THEN Return(gr, "Init", ErrClosed, call.d, call.held)
       ELSE IF (call.kind = "usb" /\ call.d.cfg) \/ (call.kind = "hid" /\ call.d.file)
       THEN Return(gr, "Init", ErrNone, call.d, call.held)
       ELSE Goto(gr, IF call.kind = "usb" THEN "busy" ELSE "open", call.d, call.held)
    /\ UNCHANGED mainVars

\* lines 126-139: isDeviceBusyUnsafe opens and closes a config and an
\* interface of its own; the kernel driver check cannot fail on an open
\* device and the error of SetAutoDetach is only logged
InitBusyCheck(gr) ==
    /\ At2(gr, "busy")
    /\ \E busy \in BOOLEAN :
        IF busy THEN Return(gr, "Init", ErrBusy, call.d, call.held)
        ELSE Goto(gr, "config", call.d, call.held)
    /\ UNCHANGED mainVars

\* lines 141-146
InitConfig(gr) ==
    /\ At2(gr, "config")
    /\ \E ok \in BOOLEAN :
        IF ok
        THEN Goto(gr, "intf", [call.d EXCEPT !.cfg = TRUE],
                  [call.held EXCEPT !.cfg = @ + 1])
        ELSE Return(gr, "Init", ErrConfig, call.d, call.held)
    /\ UNCHANGED mainVars

\* lines 148-155
InitInterface(gr) ==
    /\ At2(gr, "intf")
    /\ \E ok \in BOOLEAN :
        IF ok
        THEN Goto(gr, "epIn", [call.d EXCEPT !.intf = TRUE, !.done = TRUE],
                  [call.held EXCEPT !.intf = @ + 1])
        ELSE Return(gr, "Init", ErrInterface, cleanup(call.d),
                    cleanupHeld(call.d, call.held))
    /\ UNCHANGED mainVars

\* mutant: the failure returns without cleanup
InitInEndpoint_NoCleanup(gr) ==
    /\ At2(gr, "epIn")
    /\ \E ok \in BOOLEAN :
        IF ok
        THEN Goto(gr, "epOut", [call.d EXCEPT !.epIn = TRUE], call.held)
        ELSE Return(gr, "Init", ErrInEndpoint, call.d, call.held)
    /\ UNCHANGED mainVars

\* lines 157-163
InitInEndpoint(gr) ==
    /\ At2(gr, "epIn")
    /\ \E ok \in BOOLEAN :
        IF ok
        THEN Goto(gr, "epOut", [call.d EXCEPT !.epIn = TRUE], call.held)
        ELSE Return(gr, "Init", ErrInEndpoint, cleanup(call.d),
                    cleanupHeld(call.d, call.held))
    /\ UNCHANGED mainVars

\* lines 165-174
InitOutEndpoint(gr) ==
    /\ At2(gr, "epOut")
    /\ \E ok \in BOOLEAN :
        IF ok
        THEN Return(gr, "Init", ErrNone, [call.d EXCEPT !.epOut = TRUE], call.held)
        ELSE Return(gr, "Init", ErrOutEndpoint, cleanup(call.d),
                    cleanupHeld(call.d, call.held))
    /\ UNCHANGED mainVars

\* HIDDevice.Init, lines 107-121: os.Stat and os.OpenFile
HIDInitOpen(gr) ==
    /\ At2(gr, "open")
    /\ \E ok \in BOOLEAN :
        IF ok
        THEN Return(gr, "Init", ErrNone, [call.d EXCEPT !.file = TRUE],
                    [call.held EXCEPT !.file = @ + 1])
        ELSE Return(gr, "Init", ErrOpen, call.d, call.held)
    /\ UNCHANGED mainVars

\* the endpoint (the file) a Read or a Write uses is set
EndpointSet(d, op) ==
    IF op = "Read" THEN d.epIn \/ d.file ELSE d.epOut \/ d.file

\* mutant: the endpoint is used without the checks of closed and nil
IOBegin_NoChecks(gr, op) ==
    /\ At2(gr, "idle")
    /\ CanRLock
    /\ call' = [call EXCEPT !.mu = [w |-> "none", r |-> call.mu.r \cup {gr}],
                            !.g = [@ EXCEPT ![gr] = op]]
    /\ UNCHANGED mainVars

\* Read and Write up to the endpoint operation (lines 178-193, 205-223;
\* HIDDevice 125-141, 154-175): the read lock and the checks of closed and
\* of the endpoint; an error is returned at once, without I/O
IOBegin(gr, op) ==
    /\ At2(gr, "idle")
    /\ CanRLock
    /\ IF call.d.closed \/ ~EndpointSet(call.d, op)
       THEN call' = [call EXCEPT !.last =
                        [op |-> op,
                         ret |-> IF call.d.closed THEN ErrClosed ELSE ErrNotInitialized,
                         pre |-> call.d]]
       ELSE call' = [call EXCEPT !.mu = [w |-> "none", r |-> call.mu.r \cup {gr}],
                                 !.g = [@ EXCEPT ![gr] = op]]
    /\ UNCHANGED mainVars

\* the endpoint operation ends, the read lock is released and the call
\* returns (lines 193-201, 223-232)
IOEnd(gr) ==
    /\ On(call.g[gr] \in {"Read", "Write"})
    /\ \E ret \in {ErrNone, ErrReadFailed} :
        call' = [call EXCEPT !.mu = [w |-> "none", r |-> call.mu.r \ {gr}],
                             !.g = [@ EXCEPT ![gr] = "idle"],
                             !.last = [op |-> call.g[gr], ret |-> ret, pre |-> call.d]]
    /\ UNCHANGED mainVars

\* Close, lines 236-242 (HIDDevice.Close 187-193): the lock and the closed
\* check
CloseBegin(gr) ==
    /\ At2(gr, "idle")
    /\ CanLock
    /\ IF call.d.closed THEN Return(gr, "Close", ErrNone, call.d, call.held)
       ELSE Goto(gr, "closing", call.d, call.held)
    /\ UNCHANGED mainVars

\* mutant: the endpoints and the interface are not cleaned up
CloseEnd_NoCleanup(gr) ==
    /\ At2(gr, "closing")
    /\ \E failed \in BOOLEAN :
        /\ Return(gr, "Close", IF failed THEN ErrCloseFailed ELSE ErrNone,
                  [call.d EXCEPT !.dev = FALSE, !.file = FALSE, !.closed = TRUE],
                  [call.held EXCEPT !.file = 0])
    /\ UNCHANGED mainVars

\* lines 244-268 (HIDDevice.Close 195-208): cleanup, d.dev.Close() or
\* d.file.Close(), whose error is returned, and closed = true
CloseEnd(gr) ==
    /\ At2(gr, "closing")
    /\ \E failed \in BOOLEAN :
        /\ Return(gr, "Close", IF failed THEN ErrCloseFailed ELSE ErrNone,
                  [cleanup(call.d) EXCEPT !.dev = FALSE, !.file = FALSE,
                                          !.closed = TRUE],
                  [cleanupHeld(call.d, call.held) EXCEPT !.file = 0])
    /\ UNCHANGED mainVars

DeviceInit ==
    /\ Unstarted("device")
    /\ call \in {[fn |-> "Device", arg |-> <<>>, ret |-> <<>>, kind |-> kind,
                  d |-> NewDevice(kind),
                  mu |-> [w |-> "none", r |-> {}],
                  g |-> [gr \in Goroutines |-> "idle"],
                  held |-> [cfg |-> 0, intf |-> 0, file |-> 0],
                  inited |-> FALSE,
                  last |-> [op |-> "none", ret |-> ErrNone, pre |-> NewDevice(kind)]] :
                 kind \in DeviceKinds}

DeviceNext ==
    \E gr \in Goroutines :
        \/ InitBegin(gr)
        \/ InitBusyCheck(gr)
        \/ InitConfig(gr)
        \/ InitInterface(gr)
        \/ InitInEndpoint(gr)
        \/ InitOutEndpoint(gr)
        \/ HIDInitOpen(gr)
        \/ IOBegin(gr, "Read")
        \/ IOBegin(gr, "Write")
        \/ IOEnd(gr)
        \/ CloseBegin(gr)
        \/ CloseEnd(gr)

DeviceSpec == DeviceInit /\ [][DeviceNext]_vars

\* no session runs: main's variables keep the values of a process that has
\* not started
CallInit ==
    /\ f = [siliconID |-> Header.siliconID, siliconRev |-> Header.siliconRev,
            rows |-> <<>>]
    /\ key = [isNil |-> FALSE, bytes |-> <<>>]
    /\ restart = FALSE
    /\ pc = "calls"
    /\ peripheral = "none"
    /\ initialized = FALSE
    /\ readBuf = <<>>
    /\ val = NoVal
    /\ start = 0
    /\ end = 0
    /\ i = 0
    /\ offset = 0
    /\ result = TRUE
    /\ checksumApp = -1
    /\ wire = <<>>
    /\ globalError = FALSE
    /\ fatal = <<>>
    /\ success = FALSE
    /\ exitCode = -1
    /\ closes = 0
    /\ flashArray = -1
    /\ call = NoCall

CallNext ==
    \/ calcChecksumCall
    \/ CreateSendDataCmdCall
    \/ CreateProgramRowCmdCall
    \/ CreateEnterBootloaderCmdCall
    \/ CreateExitBootloaderCmdCall
    \/ CreateGetFlashSizeCmdCall
    \/ CreateGetRowChecksumCmdCall
    \/ CreateEraseRowCmdCall
    \/ CreateVerifyAppChecksumCmdCall
    \/ ParseEnterBootloaderCmdResultCall
    \/ ParseCreateGetFlashSizeCmdResultCall
    \/ ParseSendDataCmdResultCall
    \/ ParseProgramRowCmdResultCall
    \/ ParseEraseRowCmdResultCall
    \/ ParseGetRowChecksumCmdResultCall
    \/ ParseVerifyAppChecksumCmdResultCall
    \/ NewCyacdCall
    \/ NewRowCall
    \/ ParseRowDataCall
    \/ DeviceReadCall
    \/ HIDDeviceReadCall
    \/ findMatchingDeviceCall

CallSpec == CallInit /\ [][CallNext]_vars

----------------------------------------------------------------------------
(* Vocabulary of the properties *)

Terminated == pc = "exited"

Acquired == peripheral # "none"

IsWrite(p, cmds) == wire[p].op = "w" /\ wire[p].cmd \in cmds

IsRead(p, cmds) == wire[p].op = "r" /\ wire[p].cmd \in cmds

Positions == 1..Len(wire)

RowCmds == {CmdSendData, CmdProgramRow, CmdGetRowChecksum}

\* the payload of a request frame, and the row bytes a ProgramRow frame
\* carries after arrayID and rowNum
Payload(frame) == SubSeq(frame, 5, Len(frame) - 3)

ProgramRowData(frame) == SubSeq(frame, 8, Len(frame) - 3)

\* the row bytes written for row k by the first n events of the history
RECURSIVE RowBytesSent(_, _)
RowBytesSent(k, n) ==
    IF n = 0 THEN <<>>
    ELSE RowBytesSent(k, n - 1) \o
         (IF wire[n].row = k /\ IsWrite(n, {CmdSendData})
          THEN Payload(wire[n].bytes)
          ELSE IF wire[n].row = k /\ IsWrite(n, {CmdProgramRow})
          THEN ProgramRowData(wire[n].bytes)
          ELSE <<>>)

----------------------------------------------------------------------------
(* Properties *)

\* C1: in every session that acquired a transport, an ExitBootloader frame
\* has been handed to the transport's Write by the time the process
\* terminates, on every path (a Write that returned an error counts).
C1_ExitBootloaderAlwaysWritten ==
    (Terminated /\ Acquired) =>
        \E p \in Positions :
            wire[p].op \in {"w", "wfail"} /\ wire[p].cmd = CmdExitBootloader

\* C2: if the siliconID or siliconRev decoded from the EnterBootloader
\* response differs from the image header, the session ends with the
\* device-mismatch failure and no GetFlashSize, SendData, ProgramRow,
\* GetRowChecksum or VerifyAppChecksum frame is written.
C2_MismatchEndsSession ==
    (val # NoVal /\ (val.siliconID # f.siliconID \/ val.siliconRev # f.siliconRev))
    => /\ Terminated
       /\ exitCode = 1
       /\ fatal = <<MsgMismatch>>
       /\ ~success
       /\ \A p \in Positions :
            ~IsWrite(p, {CmdGetFlashSize, CmdVerifyChecksum} \cup RowCmds)

C2_Witness ==
    /\ Terminated
    /\ val # NoVal
    /\ val.siliconID = f.siliconID
    /\ val.siliconRev # f.siliconRev
    /\ Len(f.rows) > 0

\* C3: if the value returned by GetRowChecksum for row i differs from the
\* value computed from the image, no SendData, ProgramRow or GetRowChecksum
\* frame of a later row and no VerifyAppChecksum frame is written, and the
\* outcome is the checksum-mismatch failure.
C3_RowChecksumMismatchAborts ==
    \A p \in Positions :
        LET r == f.rows[wire[p].row]
            expected == (r.checksum + r.arrayID + (r.rowNum \div 256)
                         + (r.rowNum % 256) + (r.size % 256) + (r.size \div 256)) % 256
        IN  (IsRead(p, {CmdGetRowChecksum}) /\ wire[p].ok /\ wire[p].value # expected)
            => /\ \A q \in Positions :
                    /\ ~(IsWrite(q, RowCmds) /\ wire[q].row > wire[p].row)
                    /\ ~IsWrite(q, {CmdVerifyChecksum})
               /\ Terminated
               /\ exitCode = 1
               /\ fatal = <<MsgChecksum>>
               /\ ~success

C3_Witness ==
    /\ Terminated
    /\ fatal = <<MsgChecksum>>
    /\ Len(f.rows) = MaxRows
    /\ \E p \in Positions :
        /\ IsRead(p, {CmdGetRowChecksum})
        /\ wire[p].ok
        /\ wire[p].row = 1

\* C4: if the response to ProgramRow is not a well-formed success response,
\* the session ends with a fatal error: no frame of a later row is written
\* and success is never reported.
C4_ProgramRowFailureIsFatal ==
    \A p \in Positions :
        (IsRead(p, {CmdProgramRow}) /\ ~wire[p].ok)
        => /\ \A q \in Positions : ~(IsWrite(q, RowCmds) /\ wire[q].row > wire[p].row)
           /\ ~success
           /\ (Terminated => (exitCode = 1 /\ Len(fatal) = 1))

\* C5: within a row the chunk at offset k+57 is written only after the
\* response to the chunk at offset k was parsed as success; after a SendData
\* response that is not success nothing more is written (no further
\* SendData, no ProgramRow, no frame of a later row) and the session fails.
C5_ChunksAreAcknowledged ==
    \A p \in Positions :
        /\ (IsWrite(p, {CmdSendData}) /\ wire[p].off > 0)
           => /\ p > 1
              /\ IsRead(p - 1, {CmdSendData})
              /\ wire[p - 1].row = wire[p].row
              /\ wire[p - 1].off + (PacketSize - 7) = wire[p].off
              /\ wire[p - 1].ok
        /\ (IsRead(p, {CmdSendData}) /\ ~wire[p].ok)
           => /\ p = Len(wire)
              /\ ~success
              /\ (Terminated => (exitCode = 1 /\ fatal = <<MsgProgramming>>))
              /\ (Terminated \/ ENABLED SendDataFailed)

C5_Witness ==
    /\ Terminated
    /\ \E p \in Positions :
        /\ IsRead(p, {CmdSendData})
        /\ ~wire[p].ok
        /\ wire[p].off > 0

\* C6: when all rows were programmed and verified and the VerifyAppChecksum
\* response carries the value 0, the terminal outcome is a reported failure.
C6_ZeroAppChecksumIsReported ==
    ( /\ Terminated
      /\ checksumApp = 0
      /\ \A k \in 1..Len(f.rows) :
            \E p \in Positions :
                IsRead(p, {CmdGetRowChecksum}) /\ wire[p].row = k /\ wire[p].ok )
    => (fatal # <<>> /\ exitCode = 1 /\ ~success)

\* C7: every session that terminates reports exactly one terminal outcome:
\* success (with checksumApp # 0 and no fatal error) or exactly one fatal
\* error.
C7_ExactlyOneOutcome ==
    (Terminated /\ ~restart) =>
        \/ (success /\ fatal = <<>> /\ checksumApp # 0 /\ exitCode = 0)
        \/ (~success /\ Len(fatal) = 1 /\ exitCode = 1)

\* C8: the payloads of a row's SendData frames, in the order written,
\* followed by the data part of its ProgramRow frame equal the row's data.
C8_ChunkingReconstructsRow ==
    \A p \in Positions :
        IsWrite(p, {CmdProgramRow})
        => RowBytesSent(wire[p].row, p) = f.rows[wire[p].row].data

C8_Witness ==
    \E p \in Positions :
        /\ IsWrite(p, {CmdProgramRow})
        /\ wire[p].off = 2 * (PacketSize - 7)
        /\ f.rows[wire[p].row].size = MaxRowSize

\* C9: a row is transferred only if startRow <= rowNum <= endRow, both
\* inclusive, for the bounds the device reported; for a row outside them no
\* SendData or ProgramRow frame is written for it or for a later row and the
\* session fails with the out-of-range error.
C9_RowsWithinFlashBounds ==
    /\ \A p \in Positions :
        IsWrite(p, {CmdSendData, CmdProgramRow})
        => \A j \in 1..wire[p].row :
              start <= f.rows[j].rowNum /\ f.rows[j].rowNum <= end
    /\ \A j \in 1..Len(f.rows) :
        ( /\ (i > j \/ (i = j /\ pc # "rowHead"))
          /\ ~(start <= f.rows[j].rowNum /\ f.rows[j].rowNum <= end) )
        => (Terminated /\ exitCode = 1 /\ fatal = <<MsgOutOfRange>>)
    /\ fatal = <<MsgOutOfRange>>
       => /\ i \in 1..Len(f.rows)
          /\ ~(start <= f.rows[i].rowNum /\ f.rows[i].rowNum <= end)

C9_Witness ==
    /\ fatal = <<MsgOutOfRange>>
    /\ f.rows[i].rowNum > end
    /\ \E p \in Positions :
        /\ IsWrite(p, {CmdProgramRow})
        /\ f.rows[wire[p].row].rowNum = start

\* C10: for every row that is programmed, the bounds of its range check
\* come from a GetFlashSize query for that row's own arrayID, issued before
\* any SendData or ProgramRow frame of the row.
C10_FlashSizeQueriedPerArray ==
    \A p \in Positions :
        IsWrite(p, {CmdSendData, CmdProgramRow})
        => \E q \in 1..(p - 1) :
              /\ IsWrite(q, {CmdGetFlashSize})
              /\ Payload(wire[q].bytes) = <<f.rows[wire[p].row].arrayID>>

----------------------------------------------------------------------------
(* Vocabulary of the properties about single calls *)

CallIs(fn) == call.fn = fn

BuilderCalls ==
    {"CreateEnterBootloaderCmd", "CreateExitBootloaderCmd", "CreateGetFlashSizeCmd",
     "CreateSendDataCmd", "CreateProgramRowCmd", "CreateGetRowChecksumCmd",
     "CreateEraseRowCmd", "CreateVerifyAppChecksumCmd"}

DefaultParserCalls ==
    {"ParseSendDataCmdResult", "ParseProgramRowCmdResult", "ParseEraseRowCmdResult"}

ByteParserCalls ==
    {"ParseGetRowChecksumCmdResult", "ParseVerifyAppChecksumCmdResult"}

ParserCalls ==
    {"ParseEnterBootloaderCmdResult", "ParseCreateGetFlashSizeCmdResult"}
    \cup DefaultParserCalls \cup ByteParserCalls

\* a builder returned a frame (CreateEnterBootloaderCmd may return an error)
BuiltFrame ==
    /\ call.fn \in BuilderCalls
    /\ CallIs("CreateEnterBootloaderCmd") => ~call.ret.err

TheFrame == IF CallIs("CreateEnterBootloaderCmd") THEN call.ret.frame ELSE call.ret

\* the command code the builder is for
CmdOf(fn) ==
    CASE fn = "CreateEnterBootloaderCmd" -> 56
      [] fn = "CreateExitBootloaderCmd" -> 59
      [] fn = "CreateGetFlashSizeCmd" -> 50
      [] fn = "CreateSendDataCmd" -> 55
      [] fn = "CreateProgramRowCmd" -> 57
      [] fn = "CreateGetRowChecksumCmd" -> 58
      [] fn = "CreateEraseRowCmd" -> 52
      [] fn = "CreateVerifyAppChecksumCmd" -> 49

\* the number of data bytes the parser's response carries
DataSizeOf(fn) ==
    CASE fn = "ParseEnterBootloaderCmdResult" -> 8
      [] fn = "ParseCreateGetFlashSizeCmdResult" -> 4
      [] fn \in DefaultParserCalls -> 0
      [] fn \in ByteParserCalls -> 1

ParseOk(c) == IF c.fn \in DefaultParserCalls THEN c.ret ELSE c.ret.err = "none"

\* bitwise exclusive or of two naturals
RECURSIVE BitXor(_, _)
BitXor(a, b) ==
    IF a = 0 /\ b = 0 THEN 0
    ELSE ((a + b) % 2) + 2 * BitXor(a \div 2, b \div 2)

\* the sum of all bytes of a frame except the final three
SumButTrailer(frame) == SumRange(frame, 1, Len(frame) - 3)

\* frame[0] = 0x01, frame[1] = 0, length field = n, stop byte at n + 6
WellFormed(r, n) ==
    /\ r[1] = 1
    /\ r[2] = 0
    /\ r[3] + 256 * r[4] = n
    /\ r[n + 7] = 23

----------------------------------------------------------------------------
(* Properties of the codec and of the image header *)

\* C11: the value main compares with the GetRowChecksum response is
\* (checksum + arrayID + high8(rowNum) + low8(rowNum) + low8(size)
\* + high8(size)) mod 256: a row is accepted exactly when the device returned
\* that value; checksum 0x10, arrayID 0, rowNum 5, size 0x40 give 0x55.
C11_ExpectedRowChecksumFormula ==
    /\ ExpectedRowChecksum([arrayID |-> 0, rowNum |-> 5, size |-> 64,
                            checksum |-> 16, data |-> <<>>]) = 85
    /\ \A p \in Positions :
        LET r == f.rows[wire[p].row]
            high8(x) == (x \div 256) % 256
            low8(x) == x % 256
            expected == (r.checksum + r.arrayID + high8(r.rowNum) + low8(r.rowNum)
                         + low8(r.size) + high8(r.size)) % 256
            rejected == p = Len(wire) /\ fatal = <<MsgChecksum>>
        IN  (IsRead(p, {CmdGetRowChecksum}) /\ wire[p].ok)
            => (wire[p].value = expected <=> ~rejected)

C11_Witness ==
    /\ fatal = <<>>
    /\ \E p \in Positions :
        /\ IsRead(p, {CmdGetRowChecksum})
        /\ wire[p].ok
        /\ f.rows[wire[p].row].rowNum >= 256
        /\ p < Len(wire)

\* C12 (as amended): the pair computed by calcChecksum, read as
\* checksumLow + 256 * checksumHigh, satisfies
\* sum(frame[:-3]) + value = 0 (mod 0x10000).
C12_ChecksumCancelsSum ==
    CallIs("calcChecksum")
    => (SumButTrailer(call.arg) + call.ret[1] + 256 * call.ret[2]) % 65536 = 0

\* C12 (as stated): sum(frame[:-3]) + value = 1 (mod 0x10000).
C12_ChecksumSumIsOne ==
    CallIs("calcChecksum")
    => (SumButTrailer(call.arg) + call.ret[1] + 256 * call.ret[2]) % 65536 = 1

C12_Witness ==
    /\ CallIs("calcChecksum")
    /\ SumButTrailer(call.arg) > 65536
    /\ call.ret[2] > 0

\* C13: calcChecksum sums all bytes but the final three and returns
\* result & 0xFF and (result >> 8) & 0xFF for
\* result = (1 + (0xFFFF XOR sum)) mod 0x10000; every builder stores these
\* two bytes at positions len-3 and len-2 of the frame it returns.
C13_ChecksumStoredInFrame ==
    LET checksum(frame) ==
            LET res == (1 + BitXor(65535, SumButTrailer(frame))) % 65536
            IN  <<res % 256, (res \div 256) % 256>>
    IN  /\ CallIs("calcChecksum") => call.ret = checksum(call.arg)
        /\ BuiltFrame
           => /\ Len(TheFrame) >= 7
              /\ TheFrame[Len(TheFrame) - 2] = checksum(TheFrame)[1]
              /\ TheFrame[Len(TheFrame) - 1] = checksum(TheFrame)[2]

C13_Witness ==
    /\ CallIs("CreateProgramRowCmd")
    /\ Len(call.arg.b) = MaxPayload
    /\ SumButTrailer(call.ret) > 65536
    /\ call.ret[Len(call.ret) - 2] # call.ret[Len(call.ret) - 1]

\* C14: every frame a builder returns is
\* [0x01][cmd][lenLo][lenHi][payload][chkLo][chkHi][0x17] with
\* lenLo + 256 * lenHi = len(frame) - 7, also for payloads of 256 bytes or
\* more.
C14_LengthFieldIsPayloadLength ==
    BuiltFrame
    => /\ Len(TheFrame) >= 7
       /\ TheFrame[1] = 1
       /\ TheFrame[2] = CmdOf(call.fn)
       /\ TheFrame[3] + 256 * TheFrame[4] = Len(TheFrame) - 7
       /\ TheFrame[Len(TheFrame)] = 23

\* C15: without a key CreateEnterBootloaderCmd returns a 7-byte frame with
\* length field 0 and no payload; with a 6-byte key a 13-byte frame with
\* length field 6 whose payload is the key; in both cases the length field
\* is the payload's length.
C15_EnterBootloaderFrame ==
    CallIs("CreateEnterBootloaderCmd")
    => LET fr == call.ret.frame
           field == fr[3] + 256 * fr[4]
       IN  /\ call.arg.isNil
              => /\ ~call.ret.err
                 /\ Len(fr) = 7
                 /\ field = 0
                 /\ Payload(fr) = <<>>
           /\ (~call.arg.isNil /\ Len(call.arg.bytes) = 6)
              => /\ ~call.ret.err
                 /\ Len(fr) = 13
                 /\ field = 6
                 /\ Payload(fr) = call.arg.bytes
           /\ ~call.ret.err => field = Len(Payload(fr))

\* C16: the frames of CreateProgramRowCmd, CreateGetRowChecksumCmd and
\* CreateEraseRowCmd carry arrayID at payload offset 0 and rowNum as two
\* little-endian bytes at payload offsets 1-2: decoding the three bytes gives
\* back arrayID and rowNum, for rowNum >= 256 as well.
C16_RowAddressRoundTrip ==
    call.fn \in {"CreateProgramRowCmd", "CreateGetRowChecksumCmd", "CreateEraseRowCmd"}
    => LET payload == Payload(call.ret)
       IN  /\ Len(payload) >= 3
           /\ payload[1] = call.arg.arrayID
           /\ payload[2] + 256 * payload[3] = call.arg.row

\* C17: a response parser yields success only if frame[0] = 0x01,
\* frame[1] = 0, the length field equals the response's data size and the
\* byte at the stop position is 0x17, and it does so whenever the four hold;
\* otherwise it yields an error (or false) and no decoded value.
C17_ParsersValidateFraming ==
    call.fn \in ParserCalls
    => LET wf == WellFormed(call.arg, DataSizeOf(call.fn))
       IN  /\ ParseOk(call) <=> wf
           /\ ~wf
              => /\ CallIs("ParseEnterBootloaderCmdResult") => call.ret.val = NoVal
                 /\ CallIs("ParseCreateGetFlashSizeCmdResult")
                    => (call.ret.startRow = 0 /\ call.ret.endRow = 0)
                 /\ call.fn \in ByteParserCalls => call.ret.value = 255
                 /\ call.fn \in DefaultParserCalls => call.ret = FALSE

C17_Witness ==
    /\ CallIs("ParseGetRowChecksumCmdResult")
    /\ call.arg[1] = 1
    /\ call.arg[2] = 0
    /\ call.arg[3] + 256 * call.arg[4] = 1
    /\ call.arg[5] = 85
    /\ call.arg[8] # 23
    /\ call.ret.err # "none"

\* the responses the model gives to a parser, and the parser applied
InputsOf(fn) ==
    CASE fn = "ParseEnterBootloaderCmdResult" -> UNION {ResponsesOf(d) : d \in EnterData}
      [] fn = "ParseCreateGetFlashSizeCmdResult"
            -> UNION {ResponsesOf(d) : d \in FlashSizeData}
      [] fn \in DefaultParserCalls -> ResponsesOf(<<>>)
      [] fn \in ByteParserCalls -> UNION {ResponsesOf(d) : d \in ByteData}

Applied(fn, r) ==
    CASE fn = "ParseEnterBootloaderCmdResult" -> ParseEnterBootloaderCmdResult(r)
      [] fn = "ParseCreateGetFlashSizeCmdResult" -> ParseCreateGetFlashSizeCmdResult(r)
      [] fn = "ParseSendDataCmdResult" -> ParseSendDataCmdResult(r)
      [] fn = "ParseProgramRowCmdResult" -> ParseProgramRowCmdResult(r)
      [] fn = "ParseEraseRowCmdResult" -> ParseEraseRowCmdResult(r)
      [] fn = "ParseGetRowChecksumCmdResult" -> ParseGetRowChecksumCmdResult(r)
      [] fn = "ParseVerifyAppChecksumCmdResult" -> ParseVerifyAppChecksumCmdResult(r)

\* C18: a response with a non-zero status byte yields an error that carries
\* the status code and differs from the error for a malformed frame with
\* status 0: no response with another status byte gives the same result.
C18_StatusErrorCarriesCode ==
    (call.fn \in ParserCalls /\ call.arg[2] # 0)
    => /\ ~ParseOk(call)
       /\ \A r \in InputsOf(call.fn) :
            Applied(call.fn, r) = call.ret => r[2] = call.arg[2]

\* C19: for a well-formed success response ParseEnterBootloaderCmdResult
\* returns siliconID = frame bytes 4-7 little-endian, siliconRev = byte 8,
\* bootloaderVersion = bytes 9-11 little-endian, and
\* ParseCreateGetFlashSizeCmdResult returns startRow = bytes 4-5 and
\* endRow = bytes 6-7, little-endian.
C19_DecodedFieldsLittleEndian ==
    LET b(k) == call.arg[k + 1]
    IN  /\ (CallIs("ParseEnterBootloaderCmdResult") /\ WellFormed(call.arg, 8))
           => /\ call.ret.err = "none"
              /\ call.ret.val.siliconID
                   = b(4) + 256 * b(5) + 65536 * b(6) + 16777216 * b(7)
              /\ call.ret.val.siliconRev = b(8)
              /\ call.ret.val.bootloaderVersion = b(9) + 256 * b(10) + 65536 * b(11)
        /\ (CallIs("ParseCreateGetFlashSizeCmdResult") /\ WellFormed(call.arg, 4))
           => /\ call.ret.err = "none"
              /\ call.ret.startRow = b(4) + 256 * b(5)
              /\ call.ret.endRow = b(6) + 256 * b(7)

C19_Witness ==
    /\ CallIs("ParseEnterBootloaderCmdResult")
    /\ call.ret.err = "none"
    /\ call.ret.val.siliconID = Header.siliconID
    /\ call.ret.val.siliconRev = Header.siliconRev
    /\ call.ret.val.bootloaderVersion = 7681

\* every character of the line is a hexadecimal digit and they pair up
IsHexLine(line) ==
    /\ Len(line) % 2 = 0
    /\ \A k \in 1..Len(line) :
        \E d \in 1..16 : line[k] = HexLower[d] \/ line[k] = HexUpper[d]

\* C20: NewCyacd returns an error and no image whenever the first line is
\* missing, is not valid hex (also when its first 10 characters are) or
\* decodes to fewer than 5 bytes.
C20_BadHeaderIsAnError ==
    CallIs("NewCyacd")
    => LET file == call.arg
           missing == ~file.exists \/ Len(file.lines) = 0
       IN  (missing \/ ~IsHexLine(file.lines[1]) \/ Len(file.lines[1]) < 10)
           => call.ret.kind = "error"

----------------------------------------------------------------------------
(* Properties of the row parser, of the session's order and of its end      *)

\* the bytes a row line decodes to after its ':'
DecodedOf(line) ==
    IF Len(line) < 1 THEN <<>> ELSE DecodeString(SubSeq(line, 2, Len(line))).bytes

\* the line has a size field, N in its bytes 3-4, and decodes to fewer than
\* 5 + N + 1 bytes
TooShort(line) ==
    LET d == DecodedOf(line)
    IN  Len(d) >= 5 /\ Len(d) < 5 + (d[4] * 256 + d[5]) + 1

\* C21: a Row parsed from a row line whose size field encodes N has
\* len(data) = N = size, and a line that decodes to fewer than 5 + N + 1
\* bytes yields a format error and no Row.
C21_ShortRowLineIsAnError ==
    CallIs("NewRow")
    => /\ call.ret.kind = "row"
          => /\ Len(call.ret.row.data) = call.ret.row.size
             /\ call.ret.row.size = DecodedOf(call.arg)[4] * 256 + DecodedOf(call.arg)[5]
       /\ TooShort(call.arg) => call.ret.kind = "error"

\* the whole program: a session of main, or one call of a function
WholeSpec == (Init \/ CallInit) /\ [][Next \/ CallNext]_vars

\* the events of the history that belong to a row
RowEvents == {p \in Positions : wire[p].cmd \in RowCmds}

\* C22: ParseRowData returns one Row per line after the header, in file
\* order, and main transfers the rows in that order: the frames of row i
\* are all written before any frame of row i+1, no row is skipped, and the
\* frames of row i address row i of the file.
C22_RowsInFileOrder ==
    /\ (CallIs("ParseRowData") /\ call.ret.kind = "rows")
       => LET lines == call.arg.lines
              rows == call.ret.rows
          IN  /\ Len(rows) = IF call.arg.exists /\ Len(lines) > 1
                             THEN Len(lines) - 1 ELSE 0
              /\ \A k \in 1..Len(rows) : rows[k] = NewRow(lines[k + 1]).row
    /\ \A p, q \in RowEvents : p < q => wire[p].row <= wire[q].row
    /\ \A p \in RowEvents :
        /\ wire[p].row \in 1..Len(f.rows)
        /\ \A k \in 1..(wire[p].row - 1) :
            \E q \in RowEvents : q < p /\ wire[q].row = k
        /\ (wire[p].cmd = CmdGetRowChecksum /\ wire[p].op # "r")
           => wire[p].bytes = CreateGetRowChecksumCmd(f.rows[wire[p].row].arrayID,
                                                      f.rows[wire[p].row].rowNum)
        /\ (wire[p].cmd = CmdProgramRow /\ wire[p].op # "r")
           => /\ wire[p].bytes[5] = f.rows[wire[p].row].arrayID
              /\ wire[p].bytes[6] = Byte(f.rows[wire[p].row].rowNum)

C22_Witness ==
    /\ Len(f.rows) = 2
    /\ f.rows[1].rowNum # f.rows[2].rowNum
    /\ \E p, q \in RowEvents :
        /\ p < q
        /\ IsWrite(p, {CmdGetRowChecksum}) /\ wire[p].row = 1
        /\ IsWrite(q, {CmdProgramRow}) /\ wire[q].row = 2

\* C23: FindDevice and FindHIDDevice return, after at most 10 scans: a
\* device is returned by the scan that found it and no scan follows, a scan
\* that found none is followed by the next attempt, and after 10 scans
\* without a device or at the timeout between two attempts an error and no
\* device is returned.
C23_FindDeviceTerminates ==
    /\ [](LET scans == call.scans
              n == Len(scans)
          IN  /\ n <= maxRetries
              /\ \A k \in 1..(n - 1) : scans[k] # "device"
              /\ (call.pc # "done" /\ n > 0) => scans[n] # "device"
              /\ call.pc = "done"
                 => /\ call.ret.device <=> (n > 0 /\ scans[n] = "device")
                    /\ call.ret.device <=> call.ret.err = ErrNone
                    /\ call.ret.err \in {ErrNone, ErrNoDevicesFound, ErrSearchTimedOut}
                    /\ call.ret.err = ErrNoDevicesFound => n = maxRetries
                    /\ call.ret.err = ErrSearchTimedOut => n \in 1..(maxRetries - 1))
    /\ <>(call.pc = "done")

C23_Witness ==
    /\ call.fn = "FindDevice"
    /\ call.pc = "done"
    /\ call.ret = [device |-> FALSE, err |-> ErrNoDevicesFound]
    /\ Len(call.scans) = maxRetries

\* C24: when no transport was acquired the session ends with a fatal error
\* and non-zero status, and no frame was handed to a transport.
C24_NoFrameWithoutTransport ==
    /\ ~Acquired => wire = <<>>
    /\ (Terminated /\ ~Acquired)
       => /\ fatal \in {<<MsgCreateDevice>>, <<MsgFindDevice>>}
          /\ exitCode = 1
          /\ ~success

C24_Witness ==
    /\ Terminated
    /\ ~Acquired
    /\ fatal = <<MsgFindDevice>>
    /\ wire = <<>>

\* the requests handed to the transport other than ExitBootloader, and the
\* responses read
Requests ==
    {p \in Positions : wire[p].op \in {"w", "wfail"} /\ wire[p].cmd # CmdExitBootloader}

Responses == {p \in Positions : wire[p].op = "r"}

\* C25: every request other than ExitBootloader is followed by one read of
\* its response before anything else is written, every read answers the
\* request written just before it, and the requests written minus the
\* responses read is 0 or 1 in every state.
C25_HalfDuplex ==
    /\ Cardinality(Requests) - Cardinality(Responses) \in {0, 1}
    /\ \A p \in Requests :
        p < Len(wire)
        => /\ wire[p].op = "w"
           /\ wire[p + 1].op = "r"
           /\ wire[p + 1].cmd = wire[p].cmd
           /\ wire[p + 1].row = wire[p].row
    /\ \A p \in Responses :
        /\ p > 1
        /\ p - 1 \in Requests
        /\ wire[p - 1].op = "w"
        /\ wire[p - 1].cmd = wire[p].cmd

C25_Witness ==
    /\ Terminated
    /\ success
    /\ Cardinality(Requests) >= 5
    /\ Cardinality(Requests) = Cardinality(Responses)
    /\ IsWrite(Len(wire), {CmdExitBootloader})

\* C26: with the restart-only flag the only frame handed to the transport
\* is one ExitBootloader frame, and nothing is read.
C26_RestartWritesOnlyExit ==
    restart
    => /\ Len(wire) <= 1
       /\ \A p \in Positions :
            /\ wire[p].op \in {"w", "wfail"}
            /\ wire[p].cmd = CmdExitBootloader
            /\ wire[p].bytes = CreateExitBootloaderCmd
       /\ (Terminated /\ Acquired) => Len(wire) = 1

C26_Witness ==
    /\ restart
    /\ Terminated
    /\ exitCode = 0
    /\ wire = <<WriteEv(CmdExitBootloader, 0, 0, CreateExitBootloaderCmd)>>

\* C27: a session that acquired a transport has called its Close exactly
\* once when the process ends, and Close is called only after the
\* ExitBootloader frame was written.
C27_ClosedOnceAfterExit ==
    /\ closes <= 1
    /\ closes = 1 => \E p \in Positions : IsWrite(p, {CmdExitBootloader})
    /\ (Terminated /\ Acquired) => closes = 1

\* C28: the process ends with a non-zero status whenever checkError captured
\* an error, and with status zero only if none was captured.
C28_ExitStatusReflectsFatalError ==
    /\ globalError <=> fatal # <<>>
    /\ Terminated => (exitCode # 0 <=> fatal # <<>>)
    /\ fatal # <<>> => Terminated

C28_Witness ==
    /\ Terminated
    /\ fatal = <<MsgChecksum>>
    /\ exitCode = 1

\* C29: when the read timeout expires Device.Read and HIDDevice.Read return
\* the read-timeout error, for any other failure the read-failed error, and
\* in both cases not success.
C29_TimeoutIsDistinguished ==
    (/\ call.fn \in {"Device.Read", "HIDDevice.Read"}
     /\ ~call.arg.d.closed
     /\ call.arg.d.initialized
     /\ call.arg.deadlineSet)
    => /\ call.arg.outcome = "expired" => call.ret.err = ErrReadTimeout
       /\ call.arg.outcome = "failed" => call.ret.err = ErrReadFailed
       /\ call.arg.outcome # "data" => call.ret.err # ErrNone

\* C30: success is reported only after a VerifyAppChecksum response that is
\* a well-formed frame with status 0 carrying a non-zero byte.
C30_SuccessNeedsGoodVerifyResponse ==
    success
    => /\ WellFormed(readBuf, 1)
       /\ readBuf[5] # 0
       /\ \E p \in Positions :
            IsRead(p, {CmdVerifyChecksum}) /\ wire[p].ok /\ wire[p].value # 0

----------------------------------------------------------------------------
(* Properties of the row transfer and of the read buffer                    *)

\* the frames handed to the transport
Frames == {p \in Positions : wire[p].op \in {"w", "wfail"}}

\* C31: every SendData frame is exactly PacketSize bytes long and every
\* ProgramRow frame, with its 7 framing and 3 address bytes, at most
\* PacketSize bytes.
C31_FramesFitPacket ==
    \A p \in Frames :
        /\ wire[p].cmd = CmdSendData => Len(wire[p].bytes) = PacketSize
        /\ wire[p].cmd = CmdProgramRow => Len(wire[p].bytes) <= PacketSize

\* row k's GetRowChecksum response was read before position p, parsed, and
\* carried the expected value
RowVerifiedBefore(k, p) ==
    \E q \in 1..(p - 1) :
        /\ IsRead(q, {CmdGetRowChecksum})
        /\ wire[q].row = k
        /\ wire[q].ok
        /\ wire[q].value = ExpectedRowChecksum(f.rows[k])

\* C33: GetRowChecksum of row i is written only after the ProgramRow
\* response of row i parsed as success; the first frame of row i+1 only
\* after the GetRowChecksum value of row i was received and equal to the
\* expected one; VerifyAppChecksum only after every row was verified so.
C33_RowsVerifiedInTurn ==
    \A p \in Frames :
        /\ wire[p].cmd = CmdGetRowChecksum
           => /\ p > 1
              /\ IsRead(p - 1, {CmdProgramRow})
              /\ wire[p - 1].row = wire[p].row
              /\ wire[p - 1].ok
        /\ (wire[p].cmd \in RowCmds /\ wire[p].row > 1)
           => RowVerifiedBefore(wire[p].row - 1, p)
        /\ wire[p].cmd = CmdVerifyChecksum
           => \A k \in 1..Len(f.rows) : RowVerifiedBefore(k, p)

\* the length of the frame a buffer holds: 7 framing bytes and the data its
\* length field counts, or nothing when it does not begin with the start byte
FrameEnd(buf) == IF buf[1] = CmdStart THEN BaseCmdSize + buf[3] + 256 * buf[4] ELSE 0

C32_ChunkCount ==
    (call.fn = "chunkLoop" /\ call.pc = "done")
    => LET S == call.arg
           n == (S + SubBufSize - 1) \div SubBufSize
       IN  /\ call.ret.chunks = IF n > 0 THEN n - 1 ELSE 0
           /\ call.ret.rest <= SubBufSize
           /\ call.ret.rest = S - SubBufSize * call.ret.chunks

\* C35: NewRow returns arrayID = byte 0, rowNum = bytes 1-2 and size =
\* bytes 3-4 (big-endian), data = bytes 5..5+size and checksum = the last
\* byte of the hex decoding of the whole line.
C35_FieldsOfWholeLine ==
    CallIs("NewRow")
    => LET d == DecodeString(call.arg)
           b == d.bytes
       IN  (~d.err /\ Len(b) >= 5 /\ Len(b) = 5 + (b[4] * 256 + b[5]) + 1)
           => /\ call.ret.kind = "row"
              /\ call.ret.row.arrayID = b[1]
              /\ call.ret.row.rowNum = b[2] * 256 + b[3]
              /\ call.ret.row.size = b[4] * 256 + b[5]
              /\ call.ret.row.data = SubSeq(b, 6, 5 + (b[4] * 256 + b[5]))
              /\ call.ret.row.checksum = b[Len(b)]

\* C40: when findMatchingDevice has returned, every device it opened except
\* the one it returns was closed exactly once and the returned one was not
\* closed; the device returned is the first whose serial number is read and
\* matches, also after devices whose serial number cannot be read.
C40_OthersClosedOnce ==
    CallIs("findMatchingDevice")
    => LET devs == call.arg.devs
       IN  /\ \A k \in 1..Len(devs) :
                call.ret.closes[k] = IF k = call.ret.device THEN 0 ELSE 1
           /\ call.ret.device # 0 => devs[call.ret.device] = "wanted"
           /\ (~call.arg.err /\ \E k \in 1..Len(devs) : devs[k] = "wanted")
              => call.ret.device # 0

----------------------------------------------------------------------------
(* Properties of the transports' life cycle                                 *)

InitPcs == {"busy", "config", "intf", "epIn", "epOut", "open"}

InitInProgress == \E gr \in Goroutines : call.g[gr] \in InitPcs

IOInProgress(gr) == call.g[gr] \in {"Read", "Write"}

AllSet(d) == d.cfg /\ d.intf /\ d.done /\ d.epIn /\ d.epOut

NoneSet(d) == ~d.cfg /\ ~d.intf /\ ~d.done /\ ~d.epIn /\ ~d.epOut

NothingHeld == call.held = [cfg |-> 0, intf |-> 0, file |-> 0]

\* C36: once Close has returned the device is closed for good: dev, cfg,
\* intf, epIn, epOut (and the HID file) are nil, the library holds nothing,
\* IsInitialized is false, and a further Close returns nil and changes
\* nothing.
C36_CloseIsFinal ==
    /\ [](call.d.closed
          => /\ ~call.d.dev /\ ~call.d.file /\ NoneSet(call.d)
             /\ NothingHeld
             /\ ~IsInitialized(call.d))
    /\ [](call.last.op = "Close"
          => /\ call.d.closed
             /\ call.last.pre.closed => call.last.ret = ErrNone)
    /\ [][call.d.closed => (call'.d = call.d /\ call'.held = call.held)]_vars

C36_Witness ==
    /\ call.fn = "Device"
    /\ call.kind = "usb"
    /\ call.inited
    /\ call.last.op = "Close"
    /\ call.last.pre.closed

\* C37: an endpoint (or file) operation is in progress only when an Init
\* has succeeded and the device is not closed; Read and Write before that
\* or after Close return an error without I/O, and Init after Close returns
\* an error and acquires nothing.
C37_IOOnlyWhenReady ==
    /\ \A gr \in Goroutines :
        IOInProgress(gr)
        => /\ call.inited
           /\ ~call.d.closed
           /\ IsInitialized(call.d)
    /\ (call.last.op \in {"Read", "Write"}
        /\ (call.last.pre.closed \/ ~IsInitialized(call.last.pre)))
       => call.last.ret \in {ErrClosed, ErrNotInitialized}
    /\ (call.last.op = "Init" /\ call.last.pre.closed)
       => call.last.ret = ErrClosed /\ NothingHeld

C37_Witness ==
    /\ call.fn = "Device"
    /\ call.inited
    /\ call.last.op = "Read"
    /\ call.last.ret = ErrClosed
    /\ call.last.pre.closed

\* C38: when no Init is in progress cfg, intf, done, epIn and epOut are all
\* set or all unset and the library holds exactly what is set; an Init that
\* returns an error leaves them unset with nothing held, and an Init on an
\* initialized device returns nil and changes nothing.
C38_InitAllOrNothing ==
    /\ [](~InitInProgress
          => /\ AllSet(call.d) \/ NoneSet(call.d)
             /\ call.held.cfg = IF call.d.cfg THEN 1 ELSE 0
             /\ call.held.intf = IF call.d.intf THEN 1 ELSE 0)
    /\ [][(call'.last # call.last /\ call'.last.op = "Init")
           => IF call'.last.ret # ErrNone
              THEN NoneSet(call'.d) /\ call'.held = [call.held EXCEPT !.cfg = 0, !.intf = 0]
              ELSE AllSet(call.d) => (call'.d = call.d /\ call'.held = call.held)]_vars

C38_Witness ==
    /\ call.fn = "Device"
    /\ call.last.op = "Init"
    /\ call.last.ret = ErrOutEndpoint
    /\ ~InitInProgress
    /\ NoneSet(call.d)
    /\ NothingHeld

\* C39: while a goroutine is inside Init or Close no Read or Write endpoint
\* operation of the device is in progress, and an operation in progress
\* runs on an interface that is still claimed; Read and Write may overlap.
C39_WritersExcludeIO ==
    /\ ~(call.mu.w # "none" /\ call.mu.r # {})
    /\ \A gr \in Goroutines :
        /\ call.g[gr] \in InitPcs \cup {"closing"}
           => /\ call.mu.w = gr
              /\ \A other \in Goroutines : ~IOInProgress(other)
        /\ IOInProgress(gr)
           => /\ gr \in call.mu.r
              /\ call.kind = "usb" => (call.held.intf = 1 /\ call.held.cfg = 1)
              /\ call.kind = "hid" => call.held.file = 1

C39_Witness ==
    /\ call.fn = "Device"
    /\ call.kind = "usb"
    /\ call.g = [gr \in Goroutines |-> IF gr = "g1" THEN "Read" ELSE "Write"]

====
